---- MODULE Spec2Model ----
(***************************************************************************)
(* Local dataset caching and refresh engine of the brick set inventory     *)
(* tracker: IndexedDBService (structured cache store, cache validator,     *)
(* storage circuit breaker) and DataService.loadData (orchestrator).       *)
(*                                                                         *)
(* The specifications share the variables of this module:                  *)
(*   SpecCache     refresh cycles one at a time (saveToIndexedDB /         *)
(*                 saveCSVDataCache), batch timers, clearCSVCache;         *)
(*   SpecValidate  one cycle beside the validator (isCSVCacheValid), with  *)
(*                 time passing;                                           *)
(*   SpecOverlap   refresh cycles that overlap;                            *)
(*   SpecBreaker   ensureDB, its open attempts and the session disable;    *)
(*   SpecLoad      DataService.loadData / refreshCSVData over the store,   *)
(*                 with the fair variant FairSpecLoad;                     *)
(*   SpecReader    isCSVCacheValid alone, over every age of the cache      *)
(*                 and of the population marker;                           *)
(*   SpecUser      StorageService.loadState / saveState over the two       *)
(*                 copies of the user record;                              *)
(*   SpecCatalog   the catalog operations beside the user record and the   *)
(*                 full wipe;                                              *)
(*   SpecFetch     DataService.loadFromCSVFilesWithProgress;               *)
(*   SpecStore     saveToObjectStore / loadFromObjectStore on one object   *)
(*                 store, with the composite-key functions;                *)
(*   SpecIndex     SpecLoad beside getInventoryPartsFromCache and the      *)
(*                 lookup indices;                                         *)
(*   SpecShort     the first loadData run with batches that acknowledge    *)
(*                 fewer records than submitted;                           *)
(*   SpecRetry     ensureDB, forceCleanup and the history of the open      *)
(*                 attempts;                                               *)
(*   SpecCooldown  ensureDB against a clock that tells the start of an     *)
(*                 attempt from the instant its failure is recorded;       *)
(*   SpecRace      open attempts and the metadata read that lose the race  *)
(*                 against their timers and complete later;                *)
(*   SpecManifest  loadFromCSVFilesWithProgress from the manifest request  *)
(*                 on;                                                     *)
(*   SpecCsv       parseCSV on the characters of one file;                 *)
(*   SpecWipe      StorageService.clearAllData between page loads;         *)
(*   SpecStartup   the StorageService mutators beside the loadState the    *)
(*                 constructor starts, with saveState calls that settle    *)
(*                 later;                                                  *)
(*   SpecGuard     a saveToObjectStore call beside ensureDB and the open   *)
(*                 attempts that disable the store;                        *)
(*   SpecUndo      updatePartQuantity and performUndo of the inventory     *)
(*                 detail page.                                            *)
(* Time is in milliseconds, as Date.now().                                 *)
(***************************************************************************)
EXTENDS Integers, Sequences, FiniteSets, TLC

VARIABLES
  now,          \* Date.now()
  timeouts,     \* number of batch timers that have fired (bounded)
  store,        \* CSV partitions: table name -> set of <<key, generation>>
  meta,         \* record 'csv_cache_info' of csv_metadata, or None
  flag,         \* record 'population_in_progress' of csv_metadata, or None
  pending,      \* table name -> queue of batch transactions still pending
  started,      \* number of refresh cycles started so far
  wpc,          \* cycle -> position of its saveCSVDataCache run
  wts,          \* cycle -> csvData.timestamp captured by saveToIndexedDB
  wdata,        \* cycle -> csvData: table name -> set of keys
  wi,           \* cycle -> index i into storeDataSteps
  wb,           \* cycle -> batchIndex inside saveToObjectStore
  wflagts,      \* cycle -> timestamp of the marker it wrote (0: not yet)
  wmeta,        \* cycle -> its metadata record has been written
  rpc,          \* position of the isCSVCacheValid run
  rj,           \* index into validationChecks
  rresult,      \* value returned by the last isCSVCacheValid run
  staleCleanup, \* a fire-and-forget clearPopulationFlag is outstanding
  \* IndexedDBService, circuit breaker fields
  indexedDBDisabled,
  disabledReason,
  failureCount,
  initializationFailed,
  lastInitAttempt,
  initializationPromise,  \* the open attempt it stands for, or 0 (null)
  db,                     \* the attempt whose connection it is, or 0 (null)
  sessionDisabled,        \* sessionStorage has 'indexeddb_disabled'
  sessionReason,          \* sessionStorage 'indexeddb_disabled_reason'
  sessionKeepDisabled,    \* sessionStorage has 'indexeddb_keep_disabled'
  attempts,               \* open attempts (performDBInitialization) in flight
  attemptNow,             \* attempt -> "now" of the ensureDB call that made it
  opened,                 \* number of open attempts made so far
  ensureResult,           \* how the last ensureDB call ended
  reenabled,              \* resetSessionState has lifted a disable of this instance
  \* DataService
  supported,        \* IndexedDBService.isSupported()
  dataLoading,
  dataLoaded,       \* current value of the BehaviorSubject dataLoaded
  cacheInitialized,
  lstarted,         \* number of loadData runs the constructor and refreshCSVData
                    \* calls have asked for
  lpc,              \* run -> position of the loadData run
  csvData,          \* run -> its local csvData: "null", "cached" (read from the
                    \* store), "data" (fetched) or "empty" (fetched, no rows)
  lcycle,           \* run -> the refresh cycle its saveToIndexedDB started
  validating,       \* the run whose isCSVCacheValid call is under way, or 0
  lemitted,         \* run -> it has called dataLoaded.next(true)
  memory,           \* the in-memory tables: "empty" or "data"
  \* StorageService and the user's records
  userStore,        \* the appState store of the database: None, or the record
                    \* saveAppState put (data, timestamp)
  localRecord,      \* localStorage[FALLBACK_KEY]: None, or the parsed record
                    \* (timestamp 0: old format, no timestamp field)
  appState,         \* appStateSubject's value
  \* DataService.loadFromCSVFilesWithProgress
  manifest,         \* base name -> number of parts
  files,            \* <<base name, part>> -> the text of that file
  fpc,              \* "idle", "download", "process", "done"
  results,          \* the results array of the download loop
  csvRows,          \* the csvData object: key -> rows
  \* IndexedDBService.saveToObjectStore / loadFromObjectStore on one store
  tableKind,        \* the storeDataSteps entry: its name
  tableData,        \* its data array
  objectStore,      \* the object store: set of <<key, record>>
  opc,              \* "idle", "clear", "batch", "saved", "loaded"
  loaded,           \* None, or what loadFromObjectStore resolved with
  \* DataService, lookup indices
  partsCache,           \* Map: part_num -> Part
  inventoryPartsCache,  \* Map: inventory_id -> InventoryPart[]
  \* History of the open attempts (kept by SpecRetry and SpecCooldown)
  outcomes,         \* <<"F" / "S", instant>> per settled performDBInitialization
  \* Operations that lost the race against their timer (SpecRace)
  lingering,        \* open attempts rejected by their timer whose
                    \* indexedDB.open request has not completed yet
  mread,            \* the promise of loadCSVMetadata: its position, the value
                    \* it resolved with, its get request still outstanding,
                    \* and the instant of the call
  \* DataService.parseCSV on the characters of one file (SpecCsv)
  logical,          \* the table the file was written from: its rows of
                    \* fields, and the line ending used
  csvText,          \* the text of the file, a sequence of characters
  parsed,           \* whether parseCSV has run, and the records it returned
  \* StorageService at startup (SpecStartup)
  spc,              \* position of the loadState the constructor started
  saves,            \* saveState calls awaiting saveAppState, oldest first:
                    \* the state passed and the timestamp taken at the call
  \* The inventory detail page (SpecUndo)
  userInventory,    \* this.userInventory: partsOwned and undoHistory
  displayedParts,   \* the displayed parts: this.parts, then this.spareParts
  handled           \* the handlers that have run, oldest first (bounded)

cacheVars == <<now, timeouts, store, meta, flag, pending, started, wpc, wts,
               wdata, wi, wb, wflagts, wmeta, rpc, rj, rresult, staleCleanup>>

breakerVars == <<indexedDBDisabled, disabledReason, failureCount,
                 initializationFailed, lastInitAttempt, initializationPromise,
                 db, sessionDisabled, sessionReason, sessionKeepDisabled,
                 attempts, attemptNow, opened, ensureResult, reenabled>>

loadVars == <<supported, dataLoading, dataLoaded, cacheInitialized, lstarted,
              lpc, csvData, lcycle, validating, lemitted, memory>>

userVars == <<userStore, localRecord, appState>>

fileVars == <<manifest, files, fpc, results, csvRows>>

objVars == <<tableKind, tableData, objectStore, opc, loaded>>

indexVars == <<partsCache, inventoryPartsCache>>

dataVars == <<userVars, fileVars, objVars, indexVars>>

raceVars == <<lingering, mread>>

textVars == <<logical, csvText, parsed>>

saveVars == <<spc, saves>>

undoVars == <<userInventory, displayedParts, handled>>

restVars == <<dataVars, outcomes, raceVars, textVars, saveVars, undoVars>>

vars == <<cacheVars, breakerVars, loadVars, restVars>>

None == [absent |-> TRUE]

(***************************************************************************)
(* Bounds of the model.                                                    *)
(***************************************************************************)
MaxCycles == 2     \* refresh cycles (generations 1..MaxCycles) per behaviour
MaxKeys == 1       \* records per non-empty source table
BatchSize == 1     \* batchSize of saveToObjectStore, scaled to MaxKeys
MaxPending == 1    \* timed-out transactions queued per partition
MaxTimeouts == 1   \* batch timers that fire per behaviour
MaxOverlap == 2    \* cycles running at the same time in SpecOverlap
MaxAttempts == 4   \* database open attempts per behaviour of SpecBreaker
MaxWindows == 2    \* retry intervals the clock runs through in SpecBreaker
MaxOps == 3        \* handlers of the inventory detail page that run
MaxSaves == 2      \* saveState calls awaiting saveAppState at a time, and
                   \* clock ticks during startup
MaxStamp == 2      \* instants at which an earlier session saved the user's state
MaxParts == 2      \* file parts the manifest lists for a table
MaxRows == 2       \* data rows of a file, records of a table
MaxLen == 2        \* characters of a field of the table parseCSV is given

(***************************************************************************)
(* Program constants.                                                      *)
(***************************************************************************)
CSV_CACHE_EXPIRY_HOURS == 12
MS_PER_HOUR == 3600000
thirtyMinutes == 1800000
BATCH_TIMEOUT == 30000
MIN_RETRY_INTERVAL == 30000
metadataTimeout == 5000
MAX_FAILURES == 3
timeoutDuration == 25000

\* storeDataSteps, in the order saveCSVDataCache writes them; three of the
\* twelve partitions stand for the rest: the first one written, a second
\* load-bearing one, and the last one, which the validator does not count.
storeDataSteps == <<"inventories", "parts", "themes">>
Tables == {storeDataSteps[i] : i \in 1..Len(storeDataSteps)}

\* validationChecks, in the order performCacheValidation counts them; the
\* minimum counts are scaled to the size of a full model table.
validationChecks == <<"parts", "inventories">>
minCount(t) == MaxKeys

Keys == 1..MaxKeys
\* Open attempts per behaviour of SpecRetry, which follows one attempt
\* more than SpecBreaker.
MaxRetries == MaxAttempts + 1
Cycles == 1..MaxCycles
\* A source table is either fetched whole or, when its file fetch failed,
\* contributes no rows.
TableContents == {{}, Keys}

\* The clock starts late enough for a metadata record of timestamp 0 to be
\* older than the freshness threshold.
T0 == CSV_CACHE_EXPIRY_HOURS * MS_PER_HOUR + 1
\* The instants at which the clock is observed: the start, one millisecond
\* later, and once a marker written at either is stale.
Instants == {T0, T0 + 1, T0 + 1 + thirtyMinutes + 1}

----------------------------------------------------------------------------
(***************************************************************************)
(* Structured cache store: helpers.                                        *)
(***************************************************************************)
Records(ks, g) == {<<k, g>> : k \in ks}

\* IDBObjectStore.put: a record replaces the record of the same key.
Put(part, recs) ==
  {r \in part : \A n \in recs : n[1] # r[1]} \cup recs

\* data.slice(start, end) of batch batchIndex (1-based here).
Batch(ks, b) ==
  {k \in ks : (k - 1) \div BatchSize = b - 1}

totalBatches(ks) ==
  (Cardinality(ks) + BatchSize - 1) \div BatchSize

\* Next index >= i of storeDataSteps whose data is a non-empty array; the
\* loop of saveCSVDataCache skips ("continue") the empty ones.
RECURSIVE NextStep(_, _)
NextStep(data, i) ==
  IF i > Len(storeDataSteps) THEN i
  ELSE IF data[storeDataSteps[i]] = {} THEN NextStep(data, i + 1)
  ELSE i

\* Variant of AfterTable that leaves the table loop for the marker removal,
\* without the metadata write.
AfterTableSkipsMetadata(w, i) ==
  LET j == NextStep(wdata[w], i) IN
  IF j > Len(storeDataSteps) THEN [pc |-> "clearFlag", i |-> j]
  ELSE [pc |-> "clear", i |-> j]

\* Where saveCSVDataCache goes after the table at index i - 1: the next
\* non-empty table, or the metadata write.
AfterTable(w, i) ==
  LET j == NextStep(wdata[w], i) IN
  IF j > Len(storeDataSteps) THEN [pc |-> "meta", i |-> j]
  ELSE [pc |-> "clear", i |-> j]

----------------------------------------------------------------------------
(***************************************************************************)
(* Initial store: empty (first visit), or the complete generation 0 that   *)
(* an earlier session left, fresh or expired.                              *)
(***************************************************************************)
\* The service as constructed in a new browsing session (empty session
\* storage), before any call.
BreakerConstructed ==
  /\ indexedDBDisabled = FALSE
  /\ disabledReason = ""
  /\ failureCount = 0
  /\ initializationFailed = FALSE
  /\ lastInitAttempt = 0
  /\ initializationPromise = 0
  /\ db = 0
  /\ sessionDisabled = FALSE
  /\ sessionReason = ""
  /\ sessionKeepDisabled = FALSE
  /\ attempts = {}
  /\ attemptNow = [a \in 1..MaxRetries |-> 0]
  /\ opened = 0
  /\ ensureResult = "none"
  /\ reenabled = FALSE

\* DataService with no loadData run modelled.
LoaderIdle ==
  /\ supported = TRUE
  /\ dataLoading = FALSE
  /\ dataLoaded = FALSE
  /\ cacheInitialized = FALSE
  /\ lstarted = 0
  /\ lpc = [r \in Cycles |-> "idle"]
  /\ csvData = [r \in Cycles |-> "null"]
  /\ lcycle = [r \in Cycles |-> 0]
  /\ validating = 0
  /\ lemitted = [r \in Cycles |-> FALSE]
  /\ memory = "empty"

InitStore ==
  /\ BreakerConstructed
  /\ now = T0
  /\ timeouts = 0
  /\ \/ /\ store = [t \in Tables |-> {}]
        /\ meta = None
     \/ /\ store = [t \in Tables |-> Records(Keys, 0)]
        /\ meta \in {[timestamp |-> 0, version |-> "2.0.0"],
                     [timestamp |-> T0, version |-> "2.0.0"]}
  /\ flag = None
  /\ pending = [t \in Tables |-> << >>]
  /\ started = 0
  /\ wpc = [w \in Cycles |-> "idle"]
  /\ wts = [w \in Cycles |-> 0]
  /\ wdata = [w \in Cycles |-> [t \in Tables |-> {}]]
  /\ wi = [w \in Cycles |-> 1]
  /\ wb = [w \in Cycles |-> 1]
  /\ wflagts = [w \in Cycles |-> 0]
  /\ wmeta = [w \in Cycles |-> FALSE]
  /\ rpc = "done"
  /\ rj = 1
  /\ rresult = FALSE
  /\ staleCleanup = FALSE

\* StorageService's default state, which its constructor starts from.
DefaultState == [userInventories |-> << >>, activeInventoryId |-> "null"]

\* No file text handed to parseCSV.
NoText ==
  /\ logical = [rows |-> << >>, ending |-> "LF"]
  /\ csvText = << >>
  /\ parsed = [done |-> FALSE, records |-> << >>]

\* The lookup indices as constructed: new Map(); no open attempt settled,
\* no operation that lost its race.
MapsEmpty ==
  /\ partsCache = << >>
  /\ inventoryPartsCache = << >>
  /\ outcomes = << >>
  /\ lingering = {}
  /\ mread = [pc |-> "idle", result |-> "none", request |-> FALSE, at |-> 0]

\* No saveState call under way.
NoSaves ==
  /\ spc = "idle"
  /\ saves = << >>

\* No inventory detail page open.
NoUndo ==
  /\ userInventory = [partsOwned |-> << >>, undoHistory |-> << >>]
  /\ displayedParts = << >>
  /\ handled = << >>

NoMaps == MapsEmpty /\ NoSaves /\ NoUndo

NoIndex == NoMaps /\ NoText

\* No file fetched, no table handed to saveToObjectStore.
NoFiles ==
  /\ manifest = << >>
  /\ files = << >>
  /\ fpc = "idle"
  /\ results = << >>
  /\ csvRows = << >>
  /\ tableKind = "none"
  /\ tableData = << >>
  /\ objectStore = {}
  /\ opc = "idle"
  /\ loaded = None

NoFetch == NoIndex /\ NoFiles

\* No user record in either store.
NoUserData ==
  /\ userStore = None
  /\ localRecord = None
  /\ appState = DefaultState
  /\ NoFetch

InitCache == InitStore /\ LoaderIdle /\ NoUserData

\* Time passes, up to a later one of the instants I.
Tick(I) ==
  /\ \E t \in I : t > now /\ now' = t
  /\ UNCHANGED <<timeouts, store, meta, flag, pending, started, wpc, wts, wdata, wi,
                 wb, wflagts, wmeta, rpc, rj, rresult, staleCleanup>>
  /\ UNCHANGED <<breakerVars, loadVars, restVars>>

----------------------------------------------------------------------------
(***************************************************************************)
(* Writer: DataService.saveToIndexedDB and IndexedDBService.               *)
(* saveCSVDataCache, one action per awaited storage call and outcome.      *)
(***************************************************************************)
readerVars == <<rpc, rj, rresult, staleCleanup>>

\* saveToIndexedDB builds dataToSave with timestamp Date.now() and calls
\* saveCSVDataCache. A cycle starts in any store state: loadData starts one
\* whenever the validator answered false, which a timed-out count or
\* metadata read makes it do in every state. C holds the possible contents
\* of a fetched table.
saveToIndexedDB(w, C) ==
  /\ w = started + 1
  /\ wpc[w] = "idle"
  /\ started' = w
  /\ \E data \in [Tables -> C] : wdata' = [wdata EXCEPT ![w] = data]
  /\ wts' = [wts EXCEPT ![w] = now]
  /\ wpc' = [wpc EXCEPT ![w] = "setFlag"]
  /\ UNCHANGED <<now, timeouts, store, meta, flag, pending, wi, wb, wflagts,
                 wmeta, readerVars>>
  /\ UNCHANGED breakerVars

\* saveToIndexedDB called from outside loadData.
saveCycle(w, C) ==
  /\ saveToIndexedDB(w, C)
  /\ UNCHANGED <<loadVars, restVars>>

\* await this.setPopulationFlag(): the put succeeds, or it rejects and the
\* outer catch of saveCSVDataCache runs.
setPopulationFlag(w) ==
  /\ wpc[w] = "setFlag"
  /\ \/ /\ flag' = [timestamp |-> now, inProgress |-> TRUE]
        /\ wflagts' = [wflagts EXCEPT ![w] = now]
        /\ wpc' = [wpc EXCEPT ![w] = AfterTable(w, 1).pc]
        /\ wi' = [wi EXCEPT ![w] = AfterTable(w, 1).i]
     \/ /\ wpc' = [wpc EXCEPT ![w] = "outerClear"]
        /\ UNCHANGED <<flag, wflagts, wi>>
  /\ UNCHANGED <<now, timeouts, store, meta, pending, started, wts, wdata, wb,
                 wmeta, readerVars>>
  /\ UNCHANGED <<breakerVars, loadVars, restVars>>

\* saveToObjectStore, first transaction: clearStore.clear(). It runs after
\* the transactions already queued on the partition; an error rejects into
\* the catch around saveToObjectStore.
clearPartition(w) ==
  LET t == storeDataSteps[wi[w]] IN
  /\ wpc[w] = "clear"
  /\ \/ /\ pending[t] = << >>
        /\ store' = [store EXCEPT ![t] = {}]
        /\ wpc' = [wpc EXCEPT ![w] = "batch"]
        /\ wb' = [wb EXCEPT ![w] = 1]
     \/ /\ wpc' = [wpc EXCEPT ![w] = "innerClear"]
        /\ UNCHANGED <<store, wb>>
  /\ UNCHANGED <<now, timeouts, meta, flag, pending, started, wts, wdata, wi,
                 wflagts, wmeta, readerVars>>
  /\ UNCHANGED <<breakerVars, loadVars, restVars>>

\* Position after batch wb[w] of table wi[w] has been awaited.
AfterBatch(w) ==
  LET t == storeDataSteps[wi[w]] IN
  IF wb[w] < totalBatches(wdata[w][t])
  THEN [pc |-> "batch", i |-> wi[w], b |-> wb[w] + 1]
  ELSE [pc |-> AfterTable(w, wi[w] + 1).pc, i |-> AfterTable(w, wi[w] + 1).i,
        b |-> 1]

BatchRecords(w) ==
  Records(Batch(wdata[w][storeDataSteps[wi[w]]], wb[w]), w)

\* batchTransaction.oncomplete: every put of the batch is in the partition.
batchAcknowledged(w) ==
  LET t == storeDataSteps[wi[w]] IN
  /\ wpc[w] = "batch"
  /\ pending[t] = << >>
  /\ store' = [store EXCEPT ![t] = Put(store[t], BatchRecords(w))]
  /\ wpc' = [wpc EXCEPT ![w] = AfterBatch(w).pc]
  /\ wi' = [wi EXCEPT ![w] = AfterBatch(w).i]
  /\ wb' = [wb EXCEPT ![w] = AfterBatch(w).b]
  /\ UNCHANGED <<now, timeouts, meta, flag, pending, started, wts, wdata,
                 wflagts, wmeta, readerVars>>
  /\ UNCHANGED <<breakerVars, loadVars, restVars>>

\* Variant of batchShort in which the short count rejects the batch.
batchShortRejects(w) ==
  LET t == storeDataSteps[wi[w]] IN
  /\ wpc[w] = "batch"
  /\ pending[t] = << >>
  /\ \E S \in (SUBSET BatchRecords(w)) \ {BatchRecords(w)} :
       store' = [store EXCEPT ![t] = Put(store[t], S)]
  /\ wpc' = [wpc EXCEPT ![w] = "innerClear"]
  /\ UNCHANGED <<now, timeouts, meta, flag, pending, started, wts, wdata, wi,
                 wb, wflagts, wmeta, readerVars>>
  /\ UNCHANGED <<breakerVars, loadVars, restVars>>

\* batchTransaction.oncomplete with completed < batch.length: the items
\* whose put threw or whose key was invalid were skipped (errors++), the
\* others S are in the partition; the promise resolves with completed, and
\* the comparison of totalSaved with data.length after the last batch only
\* logs.
batchShort(w) ==
  LET t == storeDataSteps[wi[w]] IN
  /\ wpc[w] = "batch"
  /\ pending[t] = << >>
  /\ \E S \in (SUBSET BatchRecords(w)) \ {BatchRecords(w)} :
       store' = [store EXCEPT ![t] = Put(store[t], S)]
  /\ wpc' = [wpc EXCEPT ![w] = AfterBatch(w).pc]
  /\ wi' = [wi EXCEPT ![w] = AfterBatch(w).i]
  /\ wb' = [wb EXCEPT ![w] = AfterBatch(w).b]
  /\ UNCHANGED <<now, timeouts, meta, flag, pending, started, wts, wdata,
                 wflagts, wmeta, readerVars>>
  /\ UNCHANGED <<breakerVars, loadVars, restVars>>

\* batchTransaction.onerror: the transaction aborts, nothing of the batch is
\* stored, the promise rejects.
batchErrored(w) ==
  /\ wpc[w] = "batch"
  /\ wpc' = [wpc EXCEPT ![w] = "innerClear"]
  /\ UNCHANGED <<now, timeouts, store, meta, flag, pending, started, wts, wdata,
                 wi, wb, wflagts, wmeta, readerVars>>
  /\ UNCHANGED <<breakerVars, loadVars, restVars>>

\* The 30 s timer resolves the batch promise while the transaction is still
\* pending; the writer goes on, the transaction stays queued on its partition.
batchTimedOut(w) ==
  LET t == storeDataSteps[wi[w]] IN
  /\ wpc[w] = "batch"
  /\ Len(pending[t]) < MaxPending
  /\ timeouts < MaxTimeouts
  /\ timeouts' = timeouts + 1
  /\ now' = now + BATCH_TIMEOUT
  /\ pending' = [pending EXCEPT
                   ![t] = Append(@, [cycle |-> w, recs |-> BatchRecords(w)])]
  /\ wpc' = [wpc EXCEPT ![w] = AfterBatch(w).pc]
  /\ wi' = [wi EXCEPT ![w] = AfterBatch(w).i]
  /\ wb' = [wb EXCEPT ![w] = AfterBatch(w).b]
  /\ UNCHANGED <<store, meta, flag, started, wts, wdata, wflagts, wmeta,
                 readerVars>>
  /\ UNCHANGED <<breakerVars, loadVars, restVars>>

\* A pending batch transaction completes in the background ...
pendingCompletes(t) ==
  /\ pending[t] # << >>
  /\ store' = [store EXCEPT ![t] = Put(store[t], Head(pending[t]).recs)]
  /\ pending' = [pending EXCEPT ![t] = Tail(@)]
  /\ UNCHANGED <<now, timeouts, meta, flag, started, wpc, wts, wdata, wi, wb,
                 wflagts, wmeta, readerVars>>
  /\ UNCHANGED <<breakerVars, loadVars, restVars>>

\* ... or aborts.
pendingAborts(t) ==
  /\ pending[t] # << >>
  /\ pending' = [pending EXCEPT ![t] = Tail(@)]
  /\ UNCHANGED <<now, timeouts, store, meta, flag, started, wpc, wts, wdata, wi,
                 wb, wflagts, wmeta, readerVars>>
  /\ UNCHANGED <<breakerVars, loadVars, restVars>>

\* Variant of clearPopulationFlag that puts a marker with inProgress false
\* in place of the delete.
markPopulationDone(deleted) ==
  flag' = IF deleted THEN [timestamp |-> now, inProgress |-> FALSE] ELSE flag

\* clearPopulationFlag: store.delete('population_in_progress'), whoever
\* wrote the marker; a failing delete leaves it.
clearPopulationFlag(deleted) ==
  flag' = IF deleted THEN None ELSE flag

\* saveCSVDataCache returns ("saved") or throws ("failed"); the locals of
\* the run are gone.
Return(w, outcome) ==
  /\ wpc' = [wpc EXCEPT ![w] = outcome]
  /\ wts' = [wts EXCEPT ![w] = 0]
  /\ wdata' = [wdata EXCEPT ![w] = [t \in Tables |-> {}]]
  /\ wi' = [wi EXCEPT ![w] = 1]
  /\ wb' = [wb EXCEPT ![w] = 1]
  /\ wflagts' = [wflagts EXCEPT ![w] = 0]

\* catch around saveToObjectStore (line 436): clear the marker, rethrow.
innerCatch(w) ==
  /\ wpc[w] = "innerClear"
  /\ \E deleted \in BOOLEAN : clearPopulationFlag(deleted)
  /\ wpc' = [wpc EXCEPT ![w] = "outerClear"]
  /\ UNCHANGED <<now, timeouts, store, meta, pending, started, wts, wdata, wi,
                 wb, wflagts, wmeta, readerVars>>
  /\ UNCHANGED <<breakerVars, loadVars, restVars>>

\* outer catch of saveCSVDataCache (line 454): clear the marker, rethrow;
\* saveToIndexedDB logs the error and returns.
outerCatch(w) ==
  /\ wpc[w] = "outerClear"
  /\ \E deleted \in BOOLEAN : clearPopulationFlag(deleted)
  /\ Return(w, "failed")
  /\ UNCHANGED <<now, timeouts, store, meta, pending, started, wmeta, readerVars>>
  /\ UNCHANGED <<breakerVars, loadVars, restVars>>

\* Variant of saveCSVMetadata that runs ahead of the table loop.
saveCSVMetadataBeforeTables(w) ==
  /\ wpc[w] = "meta"
  /\ meta' = [timestamp |-> wts[w], version |-> "2.0.0"]
  /\ wmeta' = [wmeta EXCEPT ![w] = TRUE]
  /\ wpc' = [wpc EXCEPT ![w] = IF wmeta[w] THEN "clearFlag"
                               ELSE AfterTable(w, 1).pc]
  /\ wi' = [wi EXCEPT ![w] = AfterTable(w, 1).i]
  /\ UNCHANGED <<now, timeouts, store, flag, pending, started, wts, wdata,
                 wb, wflagts, readerVars>>
  /\ UNCHANGED <<breakerVars, loadVars, restVars>>

\* saveCSVMetadata(csvData.timestamp, csvData.version): an unconditional put
\* of key 'csv_cache_info'.
saveCSVMetadata(w) ==
  /\ wpc[w] = "meta"
  /\ \/ /\ meta' = [timestamp |-> wts[w], version |-> "2.0.0"]
        /\ wmeta' = [wmeta EXCEPT ![w] = TRUE]
        /\ wpc' = [wpc EXCEPT ![w] = "clearFlag"]
     \/ /\ wpc' = [wpc EXCEPT ![w] = "outerClear"]
        /\ UNCHANGED <<meta, wmeta>>
  /\ UNCHANGED <<now, timeouts, store, flag, pending, started, wts, wdata, wi,
                 wb, wflagts, readerVars>>
  /\ UNCHANGED <<breakerVars, loadVars, restVars>>

\* await this.clearPopulationFlag() after the metadata write (line 446); a
\* rejected delete request is caught by the outer catch.
clearFlagAfterMetadata(w) ==
  /\ wpc[w] = "clearFlag"
  /\ \/ /\ clearPopulationFlag(TRUE)
        /\ Return(w, "saved")
     \/ /\ clearPopulationFlag(FALSE)
        /\ wpc' = [wpc EXCEPT ![w] = "outerClear"]
        /\ UNCHANGED <<wts, wdata, wi, wb, wflagts>>
  /\ UNCHANGED <<now, timeouts, store, meta, pending, started, wmeta, readerVars>>
  /\ UNCHANGED <<breakerVars, loadVars, restVars>>

----------------------------------------------------------------------------
(***************************************************************************)
(* Reader: IndexedDBService.isCSVCacheValid / performCacheValidation, one  *)
(* action per awaited read.                                                *)
(***************************************************************************)
writerVars == <<started, wpc, wts, wdata, wi, wb, wflagts, wmeta>>

isCSVCacheValid ==
  /\ rpc = "done"
  /\ rpc' = "flag"
  /\ rresult' = FALSE
  /\ UNCHANGED <<now, timeouts, store, meta, flag, pending, writerVars, rj,
                 staleCleanup>>
  /\ UNCHANGED breakerVars

\* isCSVCacheValid called from outside loadData.
validate ==
  /\ isCSVCacheValid
  /\ UNCHANGED <<loadVars, restVars>>

\* Variant of the staleness test that takes a marker of any age as stale.
flagIsAlwaysStale(f, t) == t - f.timestamp >= 0

\* A marker older than thirty minutes is stale.
flagIsStale(f, t) == t - f.timestamp > thirtyMinutes

\* request.onsuccess of the marker read: true ("in progress", and
\* performCacheValidation returns false) for a marker that is not stale; a
\* stale one starts a clearPopulationFlag that is not awaited; no marker is
\* "not in progress".
populationFlagRead ==
  \/ /\ flag # None
     /\ flag.inProgress
     /\ ~flagIsStale(flag, now)
     /\ rpc' = "done"
     /\ rresult' = FALSE
     /\ UNCHANGED staleCleanup
  \/ /\ flag # None
     /\ flag.inProgress
     /\ flagIsStale(flag, now)
     /\ staleCleanup' = TRUE
     /\ rpc' = "meta"
     /\ UNCHANGED rresult
  \/ /\ flag = None
     /\ rpc' = "meta"
     /\ UNCHANGED <<rresult, staleCleanup>>

\* request.onerror of the marker read, or the catch block: "if we can't read
\* the flag, assume not in progress".
populationFlagUnreadable ==
  /\ flag # None
  /\ rpc' = "meta"
  /\ UNCHANGED <<rresult, staleCleanup>>

\* isPopulationInProgress, awaited by performCacheValidation.
isPopulationInProgress ==
  /\ rpc = "flag"
  /\ \/ populationFlagRead
     \/ populationFlagUnreadable
  /\ UNCHANGED <<now, timeouts, store, meta, flag, pending, writerVars, rj>>
  /\ UNCHANGED <<breakerVars, loadVars, restVars>>

\* The clearPopulationFlag that isPopulationInProgress did not wait for.
staleFlagCleanup ==
  /\ staleCleanup
  /\ staleCleanup' = FALSE
  /\ \E deleted \in BOOLEAN : clearPopulationFlag(deleted)
  /\ UNCHANGED <<now, timeouts, store, meta, pending, writerVars, rpc, rj,
                 rresult>>
  /\ UNCHANGED <<breakerVars, loadVars, restVars>>

\* performCacheValidation, "Check age": ageHours > CSV_CACHE_EXPIRY_HOURS.
cacheExpired(m, t) ==
  t - m.timestamp > CSV_CACHE_EXPIRY_HOURS * MS_PER_HOUR

\* loadCSVMetadata (absent on a missing record, an error or its 5 s timer)
\* followed by the age check.
loadCSVMetadata ==
  /\ rpc = "meta"
  /\ \/ /\ meta # None
        /\ ~cacheExpired(meta, now)
        /\ rpc' = "count"
        /\ rj' = 1
        /\ UNCHANGED rresult
     \/ /\ meta # None
        /\ cacheExpired(meta, now)
        /\ rpc' = "done"
        /\ rresult' = FALSE
        /\ UNCHANGED rj
     \/ /\ rpc' = "done"     \* no record, read error or timeout
        /\ rresult' = FALSE
        /\ UNCHANGED rj
  /\ UNCHANGED <<now, timeouts, store, meta, flag, pending, writerVars,
                 staleCleanup>>
  /\ UNCHANGED <<breakerVars, loadVars, restVars>>

\* Variant of the count test that takes any count as valid.
anyCountIsValid(count, minExpected) == TRUE

\* quickStoreCountCheck: const isValid = count >= minExpected.
isValid(count, minExpected) == count >= minExpected

\* quickStoreCountCheck(store, minCount) for validationChecks[rj]; after
\* the last check performCacheValidation returns true.
quickStoreCountCheck ==
  LET t == validationChecks[rj] IN
  /\ rpc = "count"
  /\ \/ /\ isValid(Cardinality(store[t]), minCount(t))
        /\ IF rj < Len(validationChecks)
           THEN /\ rj' = rj + 1
                /\ UNCHANGED <<rpc, rresult>>
           ELSE /\ rpc' = "done"
                /\ rresult' = TRUE
                /\ rj' = 1
     \/ /\ rpc' = "done"     \* count below the minimum, error or timeout
        /\ rresult' = FALSE
        /\ rj' = 1
  /\ UNCHANGED <<now, timeouts, store, meta, flag, pending, writerVars,
                 staleCleanup>>
  /\ UNCHANGED <<breakerVars, loadVars, restVars>>

\* The object stores of the database (handleDBUpgrade): the user store and
\* the CSV stores, of which the model carries storeDataSteps and
\* csv_metadata.
USER_STORE_NAME == "appState"
CSV_STORES == [t \in Tables |-> t] @@ [metadata |-> "csv_metadata"]

\* Variant of the stores clearCSVCache clears: every store of the database.
storeNamesOfDatabase ==
  {CSV_STORES[k] : k \in DOMAIN CSV_STORES} \cup {USER_STORE_NAME}

\* clearCSVCache: const storeNames = Object.values(this.CSV_STORES).
storeNames == {CSV_STORES[k] : k \in DOMAIN CSV_STORES}

\* clearCSVCache: clears every CSV partition and csv_metadata (which holds
\* both the metadata record and the marker), then clearPopulationFlag. The
\* clear transactions run after the transactions queued on each partition.
clearCSVCache ==
  /\ \A t \in Tables : pending[t] = << >>
  /\ store' = [t \in Tables |-> IF t \in storeNames THEN {} ELSE store[t]]
  /\ meta' = IF CSV_STORES.metadata \in storeNames THEN None ELSE meta
  /\ userStore' = IF USER_STORE_NAME \in storeNames THEN None ELSE userStore
  /\ clearPopulationFlag(TRUE)
  /\ failureCount' = 0
  /\ initializationFailed' = FALSE
  /\ initializationPromise' = 0
  /\ UNCHANGED <<indexedDBDisabled, disabledReason, lastInitAttempt, db,
                 sessionDisabled, sessionReason, sessionKeepDisabled,
                 attempts, attemptNow, opened, ensureResult, reenabled>>
  /\ UNCHANGED <<now, timeouts, pending, writerVars, readerVars>>

\* clearCSVCache called from outside refreshCSVData (settings page).
clearCache ==
  /\ clearCSVCache
  /\ UNCHANGED <<loadVars, localRecord, appState, fileVars, objVars,
               indexVars,
               outcomes, raceVars, textVars, saveVars, undoVars>>

\* No saveCSVDataCache run is between its start and its return.
Running ==
  {w \in Cycles : wpc[w] \notin {"idle", "saved", "failed", "returned"}}
NoCycleRunning == Running = {}

\* The storage calls of a running cycle w and of the transactions it left
\* pending.
saveCSVDataCache(w) ==
  \/ setPopulationFlag(w)
  \/ clearPartition(w)
  \/ batchAcknowledged(w)
  \/ batchErrored(w)
  \/ innerCatch(w)
  \/ outerCatch(w)
  \/ saveCSVMetadata(w)
  \/ clearFlagAfterMetadata(w)

\* Cycles one at a time ("only one refresh is expected to run at a time per
\* session"), batch timers, clearCSVCache.
NextCache ==
  \/ \E w \in Cycles : NoCycleRunning /\ saveCycle(w, TableContents)
  \/ \E w \in Cycles : saveCSVDataCache(w)
  \/ \E w \in Cycles : batchTimedOut(w)
  \/ \E t \in Tables : pendingCompletes(t)
  \/ \E t \in Tables : pendingAborts(t)
  \/ clearCache

SpecCache == InitCache /\ [][NextCache]_vars

\* One cycle and the validator side by side, with time passing.
NextValidate ==
  \/ Tick(Instants)
  \/ saveCycle(1, TableContents)
  \/ saveCSVDataCache(1)
  \/ batchTimedOut(1)
  \/ \E t \in Tables : pendingCompletes(t)
  \/ \E t \in Tables : pendingAborts(t)
  \/ validate
  \/ isPopulationInProgress
  \/ staleFlagCleanup
  \/ loadCSVMetadata
  \/ quickStoreCountCheck
  \/ clearCache

SpecValidate == InitCache /\ [][NextValidate]_vars

\* The validator alone, over a store as an earlier session left it: each
\* partition filled or empty; no metadata record, or one whose age is 12 h
\* less 1 ms, 12 h, or 12 h and 1 ms; no marker, or one whose age is 30 min
\* less 1 ms, 30 min, or 30 min and 1 ms.
InitReader ==
  /\ BreakerConstructed
  /\ LoaderIdle
  /\ NoUserData
  /\ now = T0
  /\ timeouts = 0
  /\ \E c \in [Tables -> TableContents] :
       store = [t \in Tables |-> Records(c[t], 0)]
  /\ \/ meta = None
     \/ \E d \in {-1, 0, 1} :
          meta = [timestamp |-> now - CSV_CACHE_EXPIRY_HOURS * MS_PER_HOUR - d,
                  version |-> "2.0.0"]
  /\ \/ flag = None
     \/ \E d \in {-1, 0, 1} :
          flag = [timestamp |-> now - thirtyMinutes - d, inProgress |-> TRUE]
  /\ pending = [t \in Tables |-> << >>]
  /\ started = 0
  /\ wpc = [w \in Cycles |-> "idle"]
  /\ wts = [w \in Cycles |-> 0]
  /\ wdata = [w \in Cycles |-> [t \in Tables |-> {}]]
  /\ wi = [w \in Cycles |-> 1]
  /\ wb = [w \in Cycles |-> 1]
  /\ wflagts = [w \in Cycles |-> 0]
  /\ wmeta = [w \in Cycles |-> FALSE]
  /\ rpc = "done"
  /\ rj = 1
  /\ rresult = FALSE
  /\ staleCleanup = FALSE

NextReader ==
  \/ validate
  \/ isPopulationInProgress
  \/ staleFlagCleanup
  \/ loadCSVMetadata
  \/ quickStoreCountCheck

SpecReader == InitReader /\ [][NextReader]_vars

\* Overlapping cycles (a refresh started while a load is still saving, or
\* two tabs on one database), each having fetched every source file;
\* timestamps a millisecond apart.
NextOverlap ==
  \/ Tick({T0, T0 + 1})
  \/ \E w \in Cycles : Cardinality(Running) < MaxOverlap /\ saveCycle(w, {Keys})
  \/ \E w \in Cycles : saveCSVDataCache(w)
  \/ clearCache

SpecOverlap == InitCache /\ [][NextOverlap]_vars

----------------------------------------------------------------------------
(***************************************************************************)
(* Orchestrator: DataService.loadData and refreshCSVData, one action per   *)
(* awaited call and outcome. A run saves through a refresh cycle of the    *)
(* writer above and validates through the reader above.                    *)
(***************************************************************************)
Runs == Cycles

\* loadData runs between their start and their last statement.
ActiveRuns ==
  {r \in Runs : lpc[r] \notin {"idle", "refused", "completed", "caught"}}

\* DataService as constructed: the constructor has called loadData, which
\* ran up to its first await.
loadDataCalled ==
  /\ InitStore
  /\ supported \in BOOLEAN
  /\ supported = FALSE => meta = None
  /\ dataLoading = TRUE
  /\ dataLoaded = FALSE
  /\ cacheInitialized = FALSE
  /\ lstarted = 1
  /\ lpc = [r \in Runs |->
              IF r = 1 THEN (IF supported THEN "check" ELSE "fetch")
              ELSE "idle"]
  /\ csvData = [r \in Runs |-> "null"]
  /\ lcycle = [r \in Runs |-> 0]
  /\ validating = 0
  /\ lemitted = [r \in Runs |-> FALSE]
  /\ memory = "empty"

InitLoad == loadDataCalled /\ NoUserData

\* Variant of the catch block that leaves the ready signal alone.
loadDataCatchSilent(r) ==
  /\ dataLoading' = FALSE
  /\ lpc' = [lpc EXCEPT ![r] = "caught"]
  /\ csvData' = [csvData EXCEPT ![r] = "null"]
  /\ UNCHANGED <<dataLoaded, lemitted, memory>>

\* The catch block of loadData: hideLoading, dataLoaded.next(true),
\* dataLoading = false; the in-memory tables stay as they were.
loadDataCatch(r) ==
  /\ dataLoaded' = TRUE
  /\ lemitted' = [lemitted EXCEPT ![r] = TRUE]
  /\ dataLoading' = FALSE
  /\ lpc' = [lpc EXCEPT ![r] = "caught"]
  /\ csvData' = [csvData EXCEPT ![r] = "null"]
  /\ UNCHANGED memory

\* const isCacheValid = await this.indexedDBService.isCSVCacheValid(): the
\* call.
checkCache(r) ==
  /\ lpc[r] = "check"
  /\ validating = 0
  /\ isCSVCacheValid
  /\ validating' = r
  /\ lpc' = [lpc EXCEPT ![r] = "validate"]
  /\ UNCHANGED <<supported, dataLoading, dataLoaded, cacheInitialized,
                 lstarted, csvData, lcycle, lemitted, memory>>
  /\ UNCHANGED restVars

\* ... and its result, which is never an exception; the promise's value is
\* consumed.
cacheChecked(r) ==
  /\ lpc[r] = "validate"
  /\ validating = r
  /\ rpc = "done"
  /\ validating' = 0
  /\ lpc' = [lpc EXCEPT ![r] = IF rresult THEN "loadCache" ELSE "fetch"]
  /\ rresult' = FALSE
  /\ UNCHANGED <<supported, dataLoading, dataLoaded, cacheInitialized,
                 lstarted, csvData, lcycle, lemitted, memory>>
  /\ UNCHANGED <<now, timeouts, store, meta, flag, pending, writerVars, rpc,
                 rj, staleCleanup>>
  /\ UNCHANGED <<breakerVars, restVars>>

\* csvData = await this.indexedDBService.loadCSVDataCache(): the data, null
\* when there is no metadata record, or an exception.
loadCSVDataCache(r) ==
  /\ lpc[r] = "loadCache"
  /\ \/ /\ meta # None
        /\ csvData' = [csvData EXCEPT ![r] = "cached"]
        /\ lpc' = [lpc EXCEPT ![r] = "memory"]
        /\ UNCHANGED <<dataLoading, dataLoaded, lemitted, memory>>
     \/ /\ meta = None
        /\ csvData' = [csvData EXCEPT ![r] = "null"]
        /\ lpc' = [lpc EXCEPT ![r] = "memory"]
        /\ UNCHANGED <<dataLoading, dataLoaded, lemitted, memory>>
     \/ loadDataCatch(r)
  /\ UNCHANGED <<supported, cacheInitialized, lstarted, lcycle, validating>>
  /\ UNCHANGED <<cacheVars, breakerVars, restVars>>

\* csvData = await this.loadFromCSVFilesWithProgress(): the parsed tables,
\* tables that are all empty when no file could be fetched, or an
\* exception.
loadFromCSVFilesWithProgress(r) ==
  /\ lpc[r] = "fetch"
  /\ \/ /\ \E got \in {"data", "empty"} :
             csvData' = [csvData EXCEPT ![r] = got]
        /\ lpc' = [lpc EXCEPT ![r] = IF supported THEN "save" ELSE "memory"]
        /\ UNCHANGED <<dataLoading, dataLoaded, lemitted, memory>>
     \/ loadDataCatch(r)
  /\ UNCHANGED <<supported, cacheInitialized, lstarted, lcycle, validating>>
  /\ UNCHANGED <<cacheVars, breakerVars, restVars>>

\* await this.saveToIndexedDB(csvData): the call, with every table fetched
\* non-empty, or every table empty ...
saveFetched(r) ==
  /\ lpc[r] = "save"
  /\ \E w \in Cycles :
       /\ saveToIndexedDB(w, IF csvData[r] = "empty" THEN {{}} ELSE {Keys})
       /\ lcycle' = [lcycle EXCEPT ![r] = w]
  /\ lpc' = [lpc EXCEPT ![r] = "saving"]
  /\ UNCHANGED <<supported, dataLoading, dataLoaded, cacheInitialized,
                 lstarted, csvData, validating, lemitted, memory>>
  /\ UNCHANGED restVars

\* Variant of the return in which loadData does not wait for the save.
saveNotAwaited(r) ==
  /\ lpc[r] = "saving"
  /\ lpc' = [lpc EXCEPT ![r] = "memory"]
  /\ lcycle' = [lcycle EXCEPT ![r] = 0]
  /\ UNCHANGED <<supported, dataLoading, dataLoaded, cacheInitialized,
                 lstarted, csvData, validating, lemitted, memory>>
  /\ UNCHANGED <<cacheVars, breakerVars, restVars>>

\* ... and its return; saveToIndexedDB catches what saveCSVDataCache throws,
\* and nothing of the call is kept.
saveReturned(r) ==
  /\ lpc[r] = "saving"
  /\ wpc[lcycle[r]] \in {"saved", "failed"}
  /\ wpc' = [wpc EXCEPT ![lcycle[r]] = "returned"]
  /\ wmeta' = [wmeta EXCEPT ![lcycle[r]] = FALSE]
  /\ lpc' = [lpc EXCEPT ![r] = "memory"]
  /\ lcycle' = [lcycle EXCEPT ![r] = 0]
  /\ UNCHANGED <<supported, dataLoading, dataLoaded, cacheInitialized,
                 lstarted, csvData, validating, lemitted, memory>>
  /\ UNCHANGED <<now, timeouts, store, meta, flag, pending, started, wts,
                 wdata, wi, wb, wflagts, readerVars>>
  /\ UNCHANGED <<breakerVars, restVars>>

\* The in-memory tables this.parts and this.inventoryParts when the tables
\* are m: no rows, or the rows of the source files.
partsTable(m) ==
  IF m = "data"
  THEN << [part_num |-> "3001a", name |-> "Brick"] >>
  ELSE << >>

inventoryPartsTable(m) ==
  IF m = "data"
  THEN << [inventory_id |-> 1, part_num |-> "3001a"],
          [inventory_id |-> 1, part_num |-> "3002b"] >>
  ELSE << >>

\* Map.set(key, value).
mapSet(map, key, value) ==
  [k \in DOMAIN map \cup {key} |-> IF k = key THEN value ELSE map[k]]

\* this.parts.forEach(part => this.partsCache.set(part.part_num, part)).
RECURSIVE cachedParts(_, _, _)
cachedParts(map, table, i) ==
  IF i > Len(table) THEN map
  ELSE cachedParts(mapSet(map, table[i].part_num, table[i]), table, i + 1)

\* this.inventoryParts.forEach: the part is pushed on the list of its
\* inventory_id, which is created when the map has none.
RECURSIVE indexedInventoryParts(_, _, _)
indexedInventoryParts(map, table, i) ==
  IF i > Len(table) THEN map
  ELSE LET id == table[i].inventory_id
           list == IF id \in DOMAIN map THEN map[id] ELSE << >>
       IN indexedInventoryParts(mapSet(map, id, Append(list, table[i])),
                                table, i + 1)

\* if (this.cacheInitialized) return.
alreadyInitialized(initialized) == initialized

\* initializeCache() over the in-memory tables m.
initializeCache(m) ==
  IF alreadyInitialized(cacheInitialized)
  THEN UNCHANGED <<cacheInitialized, partsCache, inventoryPartsCache>>
  ELSE /\ partsCache' = cachedParts(partsCache, partsTable(m), 1)
       /\ inventoryPartsCache' =
            indexedInventoryParts(inventoryPartsCache,
                                  inventoryPartsTable(m), 1)
       /\ cacheInitialized' = TRUE

\* loadDataIntoMemory(csvData), initializeCache(), dataLoaded.next(true),
\* dataLoading = false; loadDataIntoMemory(null) throws into the catch
\* block.
loadDataIntoMemory(r) ==
  /\ lpc[r] = "memory"
  /\ IF csvData[r] = "null"
     THEN /\ loadDataCatch(r)
          /\ UNCHANGED <<cacheInitialized, indexVars>>
     ELSE /\ memory' = IF csvData[r] = "empty" THEN "empty" ELSE "data"
          /\ initializeCache(memory')
          /\ dataLoaded' = TRUE
          /\ lemitted' = [lemitted EXCEPT ![r] = TRUE]
          /\ dataLoading' = FALSE
          /\ lpc' = [lpc EXCEPT ![r] = "completed"]
          /\ csvData' = [csvData EXCEPT ![r] = "null"]
  /\ UNCHANGED <<supported, lstarted, lcycle, validating>>
  /\ UNCHANGED <<cacheVars, breakerVars, userVars, fileVars, objVars,
               outcomes, raceVars, textVars, saveVars, undoVars>>

\* The steps of run r of loadData.
loadData(r) ==
  \/ checkCache(r)
  \/ cacheChecked(r)
  \/ loadCSVDataCache(r)
  \/ loadFromCSVFilesWithProgress(r)
  \/ saveFetched(r)
  \/ saveReturned(r)
  \/ loadDataIntoMemory(r)

\* The settings page awaits a refreshCSVData call, whose loadData run is not
\* over; its refresh button is disabled meanwhile.
isRefreshingCSV == \E r \in Runs \ {1} : r \in ActiveRuns

\* refreshCSVData. Once its clearCSVCache has returned: dataLoaded.next(false),
\* the flags reset, and loadData called, which finds dataLoading false and
\* runs up to its first await. When clearCSVCache throws (the store is
\* disabled for the session, ensureDB or a clear request fails), the catch
\* block returns false and loadData is not called ("refused").
refreshCSVData(r) ==
  /\ r = lstarted + 1
  /\ ~isRefreshingCSV
  /\ \/ /\ IF supported
           THEN clearCSVCache
           ELSE UNCHANGED <<cacheVars, breakerVars, userStore>>
        /\ dataLoaded' = FALSE
        /\ cacheInitialized' = FALSE
        /\ dataLoading' = TRUE
        /\ partsCache' = << >>
        /\ inventoryPartsCache' = << >>
        /\ lpc' = [lpc EXCEPT ![r] = IF supported THEN "check" ELSE "fetch"]
     \/ /\ supported
        /\ lpc' = [lpc EXCEPT ![r] = "refused"]
        /\ UNCHANGED <<cacheVars, breakerVars, userStore>>
        /\ UNCHANGED <<dataLoaded, cacheInitialized, dataLoading, indexVars>>
  /\ lstarted' = r
  /\ UNCHANGED <<supported, csvData, lcycle, validating, lemitted, memory>>
  /\ UNCHANGED <<localRecord, appState, fileVars, objVars,
               outcomes, raceVars, textVars, saveVars, undoVars>>

\* getInventoryPartsFromCache, subscribed to: with the indices built, the
\* list of the inventory; else dataLoaded.pipe(take(1), switchMap(...)),
\* which runs on the current value of the BehaviorSubject, that is at
\* once, and calls initializeCache over the tables in memory.
getInventoryPartsFromCache ==
  /\ initializeCache(memory)
  /\ UNCHANGED <<supported, dataLoading, dataLoaded, lstarted, lpc, csvData,
                 lcycle, validating, lemitted, memory>>
  /\ UNCHANGED <<cacheVars, breakerVars, userVars, fileVars, objVars,
               outcomes, raceVars, textVars, saveVars, undoVars>>

\* The reader's steps.
performCacheValidation ==
  \/ isPopulationInProgress
  \/ loadCSVMetadata
  \/ quickStoreCountCheck

NextLoad ==
  \/ \E r \in Runs : loadData(r)
  \/ \E r \in Runs : refreshCSVData(r)
  \/ \E w \in Cycles : saveCSVDataCache(w)
  \/ performCacheValidation

SpecLoad == InitLoad /\ [][NextLoad]_vars

\* Every awaited call settles: each run, each cycle and the validator take
\* their next step.
FairSpecLoad ==
  /\ SpecLoad
  /\ \A r \in Runs : WF_vars(loadData(r))
  /\ \A w \in Cycles : WF_vars(saveCSVDataCache(w))
  /\ WF_vars(performCacheValidation)

\* The run of loadData the constructor starts, with batches that
\* acknowledge fewer records than were submitted; no refresh is asked for.
NextShort ==
  \/ \E r \in Runs : loadData(r)
  \/ \E w \in Cycles : saveCSVDataCache(w)
  \/ \E w \in Cycles : batchShort(w)
  \/ performCacheValidation

SpecShort == InitLoad /\ [][NextShort]_vars

\* The orchestrator beside components that look inventories up.
NextIndex ==
  \/ NextLoad
  \/ getInventoryPartsFromCache

SpecIndex == InitLoad /\ [][NextIndex]_vars

----------------------------------------------------------------------------
(***************************************************************************)
(* Storage circuit breaker: IndexedDBService.ensureDB, the open attempts   *)
(* it starts, and the operations that reset its state.                     *)
(***************************************************************************)
storeVars == <<timeouts, store, meta, flag, pending, writerVars, readerVars>>

\* The store with no cache and nothing running.
StoreQuiet ==
  /\ timeouts = 0
  /\ store = [t \in Tables |-> {}]
  /\ meta = None
  /\ flag = None
  /\ pending = [t \in Tables |-> << >>]
  /\ started = 0
  /\ wpc = [w \in Cycles |-> "idle"]
  /\ wts = [w \in Cycles |-> 0]
  /\ wdata = [w \in Cycles |-> [t \in Tables |-> {}]]
  /\ wi = [w \in Cycles |-> 1]
  /\ wb = [w \in Cycles |-> 1]
  /\ wflagts = [w \in Cycles |-> 0]
  /\ wmeta = [w \in Cycles |-> FALSE]
  /\ rpc = "done"
  /\ rj = 1
  /\ rresult = FALSE
  /\ staleCleanup = FALSE

InitBreaker ==
  /\ now = T0
  /\ StoreQuiet
  /\ BreakerConstructed
  /\ LoaderIdle
  /\ NoUserData

\* The clock of SpecBreaker runs through whole retry intervals.
BreakerInstants == {T0 + k * MIN_RETRY_INTERVAL : k \in 0..MaxWindows}

\* The reason disableIndexedDBForSession is given by ensureDB.
InitFailedReason == "Database initialization failed"

\* checkSessionDisableStatus: the values of indexedDBDisabled and
\* disabledReason after it.
checkSessionDisableStatus ==
  IF sessionDisabled
  THEN [disabled |-> TRUE,
        reason |-> IF sessionReason # "" THEN sessionReason
                   ELSE "Previous session failure"]
  ELSE [disabled |-> indexedDBDisabled, reason |-> disabledReason]

\* Variant of the cool-down test that never lets the cool-down end.
failedAtAll == initializationFailed

\* The cool-down test of ensureDB.
failedRecently ==
  initializationFailed /\ (now - lastInitAttempt) < MIN_RETRY_INTERVAL

\* ensureDB up to its await: throws when disabled, returns the open
\* connection, throws during the cool-down, joins the initialization in
\* progress, or starts performDBInitialization.
ensureDBWithin(n) ==
  LET chk == checkSessionDisableStatus IN
  /\ indexedDBDisabled' = chk.disabled
  /\ disabledReason' = chk.reason
  /\ IF chk.disabled
     THEN /\ ensureResult' = "disabled"
          /\ UNCHANGED <<initializationPromise, attempts, attemptNow, opened>>
     ELSE IF db # 0
     THEN /\ ensureResult' = "connection"
          /\ UNCHANGED <<initializationPromise, attempts, attemptNow, opened>>
     ELSE IF failedRecently
     THEN /\ ensureResult' = "failedRecently"
          /\ UNCHANGED <<initializationPromise, attempts, attemptNow, opened>>
     ELSE IF initializationPromise # 0
     THEN /\ ensureResult' = "joined"
          /\ UNCHANGED <<initializationPromise, attempts, attemptNow, opened>>
     ELSE /\ opened < n
          /\ opened' = opened + 1
          /\ initializationPromise' = opened + 1
          /\ attempts' = attempts \cup {opened + 1}
          /\ attemptNow' = [attemptNow EXCEPT ![opened + 1] = now]
          /\ ensureResult' = "started"
  /\ UNCHANGED <<failureCount, initializationFailed, lastInitAttempt, db,
                 sessionDisabled, sessionReason, sessionKeepDisabled,
                 reenabled>>
  /\ UNCHANGED <<now, storeVars, loadVars, restVars>>

ensureDB == ensureDBWithin(MaxAttempts)

\* Variant of the try branch that leaves the failure count as it is.
openSucceededKeepsCount(a) ==
  /\ a \in attempts
  /\ attempts' = attempts \ {a}
  /\ initializationFailed' = FALSE
  /\ db' = a
  /\ UNCHANGED <<indexedDBDisabled, disabledReason, failureCount,
                 lastInitAttempt, initializationPromise, sessionDisabled,
                 sessionReason, sessionKeepDisabled, attemptNow, opened,
                 ensureResult, reenabled>>
  /\ UNCHANGED <<now, storeVars, loadVars, dataVars>>

\* try branch of ensureDB: the awaited open resolved with a connection.
openSucceeded(a) ==
  /\ a \in attempts
  /\ attempts' = attempts \ {a}
  /\ initializationFailed' = FALSE
  /\ failureCount' = 0
  /\ db' = a
  /\ UNCHANGED <<indexedDBDisabled, disabledReason, lastInitAttempt,
                 initializationPromise, sessionDisabled, sessionReason,
                 sessionKeepDisabled, attemptNow, opened, ensureResult,
                 reenabled>>
  /\ UNCHANGED <<now, storeVars, loadVars, dataVars>>

\* Variant of the threshold test that is off by one.
thresholdExceeded(count) == count > MAX_FAILURES

\* The threshold test of the catch branch of ensureDB.
thresholdReached(count) == count >= MAX_FAILURES

\* catch branch of ensureDB for attempt a, after the rejecting handler of
\* performDBInitialization (request.onerror or the timer) has set
\* initializationFailed and cleared initializationPromise; at the threshold
\* disableIndexedDBForSession runs.
initializationFailure(a) ==
  /\ attempts' = attempts \ {a}
  /\ initializationFailed' = TRUE
  /\ lastInitAttempt' = attemptNow[a]
  /\ initializationPromise' = 0
  /\ failureCount' = failureCount + 1
  /\ IF thresholdReached(failureCount + 1)
     THEN /\ indexedDBDisabled' = TRUE
          /\ disabledReason' = InitFailedReason
          /\ db' = 0
          /\ sessionDisabled' = TRUE
          /\ sessionReason' = InitFailedReason
     ELSE UNCHANGED <<indexedDBDisabled, disabledReason, db, sessionDisabled,
                      sessionReason>>
  /\ UNCHANGED <<sessionKeepDisabled, attemptNow, opened, ensureResult,
                 reenabled>>
  /\ UNCHANGED <<now, storeVars, loadVars, dataVars>>

\* request.onerror (or an exception of indexedDB.open) rejects the attempt.
openFailed(a) ==
  /\ a \in attempts
  /\ initializationFailure(a)

\* The 25 s timer of performDBInitialization rejects the attempt.
openTimedOut(a) ==
  /\ a \in attempts
  /\ now >= attemptNow[a] + timeoutDuration
  /\ initializationFailure(a)

\* Variant of resetSessionState that keeps the cool-down of the last
\* failure.
resetSessionStateKeepsCooldown ==
  /\ sessionDisabled' = FALSE
  /\ sessionReason' = ""
  /\ indexedDBDisabled' = FALSE
  /\ disabledReason' = ""
  /\ failureCount' = 0
  /\ initializationPromise' = 0
  /\ db' = 0
  /\ reenabled' = (reenabled \/ indexedDBDisabled)
  /\ UNCHANGED <<initializationFailed, lastInitAttempt, sessionKeepDisabled,
                 attempts, attemptNow, opened, ensureResult>>
  /\ UNCHANGED <<now, storeVars, loadVars, restVars>>

\* resetSessionState (manual reset by the user).
resetSessionState ==
  /\ sessionDisabled' = FALSE
  /\ sessionReason' = ""
  /\ indexedDBDisabled' = FALSE
  /\ disabledReason' = ""
  /\ failureCount' = 0
  /\ initializationFailed' = FALSE
  /\ initializationPromise' = 0
  /\ db' = 0
  /\ reenabled' = (reenabled \/ indexedDBDisabled)
  /\ UNCHANGED <<lastInitAttempt, sessionKeepDisabled, attempts, attemptNow,
                 opened, ensureResult>>
  /\ UNCHANGED <<now, storeVars, loadVars, restVars>>

\* Variant of resetSessionStateAfterClear that also lifts the disable.
resetSessionStateAfterClearEnables ==
  /\ failureCount' = 0
  /\ initializationFailed' = FALSE
  /\ initializationPromise' = 0
  /\ indexedDBDisabled' = FALSE
  /\ disabledReason' = ""
  /\ UNCHANGED <<lastInitAttempt, db, sessionDisabled, sessionReason,
                 sessionKeepDisabled, attempts, attemptNow, opened,
                 ensureResult, reenabled>>
  /\ UNCHANGED <<now, storeVars, loadVars, restVars>>

\* resetSessionStateAfterClear, the last step of clearCSVCache and of
\* clearAllData (which runs it whether or not the deletion succeeded).
resetSessionStateAfterClear ==
  /\ failureCount' = 0
  /\ initializationFailed' = FALSE
  /\ initializationPromise' = 0
  /\ UNCHANGED <<indexedDBDisabled, disabledReason, lastInitAttempt, db,
                 sessionDisabled, sessionReason, sessionKeepDisabled,
                 attempts, attemptNow, opened, ensureResult, reenabled>>
  /\ UNCHANGED <<now, storeVars, loadVars, restVars>>

\* forceCleanup.
forceCleanup ==
  /\ db' = 0
  /\ initializationPromise' = 0
  /\ initializationFailed' = FALSE
  /\ lastInitAttempt' = 0
  /\ UNCHANGED <<indexedDBDisabled, disabledReason, failureCount,
                 sessionDisabled, sessionReason, sessionKeepDisabled,
                 attempts, attemptNow, opened, ensureResult, reenabled>>
  /\ UNCHANGED <<now, storeVars, loadVars, restVars>>

\* deleteDatabase: closes the connection and resets the initialization
\* state before it asks for the deletion.
deleteDatabase ==
  /\ db' = 0
  /\ initializationPromise' = 0
  /\ initializationFailed' = FALSE
  /\ UNCHANGED <<indexedDBDisabled, disabledReason, failureCount,
                 lastInitAttempt, sessionDisabled, sessionReason,
                 sessionKeepDisabled, attempts, attemptNow, opened,
                 ensureResult, reenabled>>
  /\ UNCHANGED <<now, storeVars, loadVars, restVars>>

\* A page load in the same browsing session: a new service instance (field
\* initializers, then the constructor) over the session storage the last
\* one left; the open attempts of the old page are gone.
constructor ==
  LET keep == sessionKeepDisabled
      stillDisabled == keep /\ sessionDisabled IN
  /\ sessionDisabled' = stillDisabled
  /\ sessionReason' = IF keep THEN sessionReason ELSE ""
  /\ indexedDBDisabled' = stillDisabled
  /\ disabledReason' = IF stillDisabled
                       THEN (IF sessionReason # "" THEN sessionReason
                             ELSE "Previous session failure")
                       ELSE ""
  /\ failureCount' = 0
  /\ initializationFailed' = FALSE
  /\ lastInitAttempt' = 0
  /\ initializationPromise' = 0
  /\ db' = 0
  /\ attempts' = {}
  /\ ensureResult' = "none"
  /\ reenabled' = FALSE
  /\ UNCHANGED <<sessionKeepDisabled, attemptNow, opened>>
  /\ UNCHANGED <<now, storeVars, loadVars, restVars>>

NextBreaker ==
  \/ Tick(BreakerInstants)
  \/ ensureDB
  \/ \E a \in 1..MaxAttempts : openSucceeded(a) /\ UNCHANGED <<outcomes, raceVars, textVars, saveVars, undoVars>>
  \/ \E a \in 1..MaxAttempts : openFailed(a) /\ UNCHANGED <<outcomes, raceVars, textVars, saveVars, undoVars>>
  \/ \E a \in 1..MaxAttempts : openTimedOut(a) /\ UNCHANGED <<outcomes, raceVars, textVars, saveVars, undoVars>>
  \/ resetSessionState
  \/ resetSessionStateAfterClear
  \/ forceCleanup
  \/ deleteDatabase
  \/ constructor

SpecBreaker == InitBreaker /\ [][NextBreaker]_vars

\* ensureDB and the open attempts it starts, with the history of their
\* outcomes; forceCleanup drops the connection between attempts.
settled(a) ==
  /\ \/ openSucceeded(a) /\ outcomes' = Append(outcomes, <<"S", now>>)
     \/ openFailed(a) /\ outcomes' = Append(outcomes, <<"F", now>>)
     \/ openTimedOut(a) /\ outcomes' = Append(outcomes, <<"F", now>>)
  /\ UNCHANGED <<raceVars, textVars, saveVars, undoVars>>

\* The clock of SpecRetry runs through one retry interval.
RetryInstants == {T0, T0 + MIN_RETRY_INTERVAL}

NextRetry ==
  \/ Tick(RetryInstants)
  \/ ensureDBWithin(MaxRetries)
  \/ \E a \in 1..MaxRetries : settled(a)
  \/ forceCleanup

SpecRetry == InitBreaker /\ [][NextRetry]_vars

\* The clock of SpecCooldown: in each retry interval, its start and the
\* instant at which the 25 s timer of an attempt started then fires.
CooldownInstants ==
  {T0 + k * MIN_RETRY_INTERVAL + d :
     k \in 0..(MaxWindows - 1), d \in {0, timeoutDuration}}

\* SpecCooldown: ensureDB calls and open attempts against a clock that tells
\* the start of an attempt from the instant its failure is recorded; no reset
\* runs, so attempt k is the k-th to settle.
NextCooldown ==
  \/ Tick(CooldownInstants)
  \/ ensureDBWithin(MaxWindows)
  \/ \E a \in 1..MaxWindows : settled(a)

SpecCooldown == InitBreaker /\ [][NextCooldown]_vars

(***************************************************************************)
(* The races of performDBInitialization and loadCSVMetadata against their  *)
(* timers: the operation that lost the race completes later.               *)
(***************************************************************************)
\* The breaker and the store are left alone by the metadata read.
metadataFrame ==
  /\ UNCHANGED lingering
  /\ UNCHANGED <<cacheVars, breakerVars, loadVars, dataVars, outcomes,
                 textVars, saveVars, undoVars>>

\* request.onsuccess, or request.onerror, before the timer of the attempt.
openSettled(a) ==
  /\ openSucceeded(a) \/ openFailed(a)
  /\ UNCHANGED <<outcomes, raceVars, textVars, saveVars, undoVars>>

\* The 25 s timer rejects attempt a; its indexedDB.open request is still
\* outstanding.
timerWon(a) ==
  /\ openTimedOut(a)
  /\ lingering' = lingering \cup {a}
  /\ UNCHANGED <<outcomes, mread, textVars, saveVars, undoVars>>

\* request.onsuccess of an attempt the timer has rejected: clearTimeout,
\* db.onerror, resolve(db) on a promise that is settled; ensureDB is in its
\* catch branch or past it, nobody assigns this.db.
lateSuccess(a) ==
  /\ a \in lingering
  /\ lingering' = lingering \ {a}
  /\ UNCHANGED <<cacheVars, breakerVars, loadVars, dataVars, outcomes, mread,
                 textVars, saveVars, undoVars>>

\* request.onerror of an attempt the timer has rejected: clearTimeout,
\* initializationFailed = true, initializationPromise = null, reject on a
\* promise that is settled.
lateError(a) ==
  /\ a \in lingering
  /\ lingering' = lingering \ {a}
  /\ initializationFailed' = TRUE
  /\ initializationPromise' = 0
  /\ UNCHANGED <<indexedDBDisabled, disabledReason, failureCount,
                 lastInitAttempt, db, sessionDisabled, sessionReason,
                 sessionKeepDisabled, attempts, attemptNow, opened,
                 ensureResult, reenabled>>
  /\ UNCHANGED <<cacheVars, loadVars, dataVars, outcomes, mread, textVars, saveVars, undoVars>>

\* loadCSVMetadata once ensureDB has given the connection: the timer is
\* set and store.get('csv_cache_info') is requested.
metadataRequested ==
  /\ db # 0
  /\ mread.pc \in {"idle", "resolved"}
  /\ ~mread.request
  /\ mread' = [pc |-> "reading", result |-> "none", request |-> TRUE,
               at |-> now]
  /\ metadataFrame

\* request.onsuccess (a record or none), request.onerror, transaction.onerror
\* or onabort before the timer: clearTimeout and resolve.
metadataAnswered ==
  /\ mread.pc = "reading"
  /\ \E v \in {"record", "absent"} :
       mread' = [mread EXCEPT !.pc = "resolved", !.result = v,
                              !.request = FALSE]
  /\ metadataFrame

\* The 5 s timer: resolve(null); the request is still outstanding.
metadataTimedOut ==
  /\ mread.pc = "reading"
  /\ now >= mread.at + metadataTimeout
  /\ mread' = [mread EXCEPT !.pc = "resolved", !.result = "absent"]
  /\ metadataFrame

\* A handler of the request after the timer: clearTimeout and resolve on a
\* promise that is resolved.
metadataLate ==
  /\ mread.pc = "resolved"
  /\ mread.request
  /\ mread' = [mread EXCEPT !.request = FALSE]
  /\ metadataFrame

NextRace ==
  \/ Tick(CooldownInstants)
  \/ ensureDBWithin(MaxWindows)
  \/ \E a \in 1..MaxWindows : openSettled(a)
  \/ \E a \in 1..MaxWindows : timerWon(a)
  \/ \E a \in 1..MaxWindows : lateSuccess(a)
  \/ \E a \in 1..MaxWindows : lateError(a)
  \/ metadataRequested
  \/ metadataAnswered
  \/ metadataTimedOut
  \/ metadataLate

SpecRace == InitBreaker /\ [][NextRace]_vars

----------------------------------------------------------------------------
(***************************************************************************)
(* Circuit breaker: properties.                                            *)
(***************************************************************************)
FailureOf(a) == openFailed(a) \/ openTimedOut(a)

\* C6: counting from zero, the store is still enabled after the 1st and the
\* 2nd consecutive failed initialization and is disabled by the 3rd, which
\* also stores the disabled flag and its reason in session storage.
C6_ThirdFailureDisables ==
  [][\A a \in 1..MaxAttempts :
       (FailureOf(a) /\ ~indexedDBDisabled) =>
         /\ failureCount' = failureCount + 1
         /\ indexedDBDisabled' = (failureCount' = 3)
         /\ failureCount' <= 3
         /\ indexedDBDisabled' =>
              (sessionDisabled' /\ sessionReason' = InitFailedReason)]_vars

C6_Witness ==
  indexedDBDisabled /\ failureCount = 3 /\ sessionDisabled

\* C7: once disabled, the instance stays disabled through every operation
\* other than resetSessionState (a page load makes a new instance).
C7_DisableSticky ==
  [][(indexedDBDisabled /\ ~resetSessionState /\ ~constructor)
       => indexedDBDisabled']_vars

\* Disabled, then a clear reset the failure count, then a call was refused.
C7_Witness ==
  indexedDBDisabled /\ failureCount = 0 /\ ensureResult = "disabled"

\* C8: a service instance constructed on a later page load of the same
\* session starts disabled when the store was disabled before the load.
C8_DisabledAcrossReload ==
  [][(indexedDBDisabled /\ constructor) => indexedDBDisabled']_vars

\* What resetSessionState leaves: flag cleared in memory and in session
\* storage, counter zero, cool-down state cleared, no connection and no
\* initialization in progress.
ResetPost ==
  /\ ~indexedDBDisabled
  /\ disabledReason = ""
  /\ ~sessionDisabled
  /\ sessionReason = ""
  /\ failureCount = 0
  /\ ~initializationFailed
  /\ initializationPromise = 0
  /\ db = 0

\* C9: resetSessionState leaves the state ResetPost; an ensureDB call in
\* that state starts a fresh open attempt at once; and if that attempt is
\* the single failure since the reset, the count is 1 and the store enabled.
C9_ResetAllowsFreshAttempt ==
  [][/\ resetSessionState => ResetPost'
     /\ (ResetPost /\ ensureDB) => ensureResult' = "started"
     /\ \A a \in 1..MaxAttempts :
          (FailureOf(a) /\ failureCount = 0 /\ ~indexedDBDisabled) =>
            (failureCount' = 1 /\ ~indexedDBDisabled')]_vars

\* A reset lifted a disable, the next call started an attempt, it failed.
C9_Witness ==
  /\ reenabled
  /\ ensureResult = "started"
  /\ initializationFailed
  /\ failureCount = 1
  /\ ~indexedDBDisabled

----------------------------------------------------------------------------
(***************************************************************************)
(* Structured cache store: properties.                                     *)
(***************************************************************************)
\* A record of cycle w enters a partition in this step.
TableWriteTakesEffect(w) ==
  \E t \in Tables : \E r \in store'[t] \ store[t] : r[2] = w

\* Cycle w issues a table transaction (a clear or a batch) in this step.
TableWriteIssued(w) ==
  \/ clearPartition(w)
  \/ batchAcknowledged(w)
  \/ batchErrored(w)
  \/ batchTimedOut(w)

\* A batch transaction of cycle w that timed out completes in this step.
TimedOutBatchCompletes(w) ==
  \E t \in Tables :
    /\ pending[t] # << >>
    /\ Head(pending[t]).cycle = w
    /\ pendingCompletes(t)

\* C1: once a cycle has written its metadata record, no table write of
\* that cycle takes effect any more, whatever the outcome of its batches.
C1_MetadataIsLastWrite ==
  [][\A w \in Cycles : wmeta[w] => ~TableWriteTakesEffect(w)]_vars

\* C1, amended: a cycle issues no table transaction after its metadata
\* write, and the only table write of the cycle that can take effect after
\* it is a batch that timed out with its transaction still pending.
C1_MetadataAfterIssuedWrites ==
  [][\A w \in Cycles :
       wmeta[w] =>
         /\ ~TableWriteIssued(w)
         /\ TableWriteTakesEffect(w) => TimedOutBatchCompletes(w)]_vars

\* Metadata written while a timed-out batch of the same cycle is pending.
C1_Witness ==
  \E w \in Cycles : \E t \in Tables :
    /\ wmeta[w]
    /\ pending[t] # << >>
    /\ Head(pending[t]).cycle = w

\* Cycle w is between its first partition clear and its metadata write.
MidCycle(w) ==
  LET first == NextStep(wdata[w], 1) IN
  /\ first <= Len(storeDataSteps)
  /\ \/ wpc[w] = "batch"
     \/ wpc[w] = "clear" /\ wi[w] > first
     \/ wpc[w] = "meta"

\* isCSVCacheValid returns true in this step.
ValidatorAccepts ==
  rpc # "done" /\ rpc' = "done" /\ rresult'

\* C2: the validator never returns true while a cycle whose marker is less
\* than thirty minutes old is between its first clear and its metadata
\* write.
C2_NoAcceptMidCycle ==
  [][ValidatorAccepts =>
       \A w \in Cycles :
         ~(MidCycle(w) /\ wflagts[w] # 0 /\ now - wflagts[w] < thirtyMinutes)]_vars

\* The marker of the running cycle w is removed in this step.
MarkerRemoved(w) ==
  wflagts[w] # 0 /\ flag # None /\ flag' = None

\* C3: the marker is set before the first table partition is cleared or
\* written, and no step removes the marker of a cycle whose metadata
\* record has not been written.
C3_MarkerHeldUntilMetadata ==
  [][\A w \in Cycles :
       /\ TableWriteIssued(w) => wflagts[w] # 0
       /\ MarkerRemoved(w) => wmeta[w]]_vars

\* C3, amended: the marker is set before the first table partition is
\* cleared or written, and a cycle whose table and metadata writes have
\* not failed removes the marker only after its metadata record is written.
C3_MarkerHeldOnSuccessPath ==
  [][\A w \in Cycles :
       /\ TableWriteIssued(w) => wflagts[w] # 0
       /\ (/\ MarkerRemoved(w)
           /\ wpc'[w] # wpc[w]
           /\ wpc[w] \notin {"innerClear", "outerClear"}) => wmeta[w]]_vars

\* A cycle has returned normally: metadata written, marker removed.
C3_Witness ==
  \E w \in Cycles : wpc[w] = "saved" /\ wmeta[w] /\ flag = None

\* C4: when a cycle writes its metadata record, every partition holds
\* exactly the records of that cycle's dataset.
C4_NoMergedGenerations ==
  [][\A w \in Cycles :
       (~wmeta[w] /\ wmeta'[w]) =>
         \A t \in Tables : store'[t] = Records(wdata[w][t], w)]_vars

\* C5: a metadata write never replaces a record by one of a smaller
\* timestamp.
C5_TimestampMonotonic ==
  [][(meta # None /\ meta' # None) =>
       meta'.timestamp >= meta.timestamp]_vars

\* C10: every run of loadData that starts a load eventually calls
\* dataLoaded.next(true).
C10_LoadEmitsReady ==
  \A r \in Runs : (lpc[r] \notin {"idle", "refused"}) ~> lemitted[r]

\* Runs have ended in the try block and in the catch block, the latter with
\* the ready signal up.
C10_Witness ==
  /\ \E r \in Runs : lpc[r] = "caught" /\ lemitted[r] /\ dataLoaded
  /\ \E r \in Runs : lpc[r] = "completed"


----------------------------------------------------------------------------
(***************************************************************************)
(* StorageService: the user's state in the appState store and in           *)
(* localStorage, loadState's reconciliation of the two, and the wipe.      *)
(***************************************************************************)
AppStates ==
  [userInventories : {<< >>, <<"inv1">>}, activeInventoryId : {"null", "inv1"}]

\* StorageService.checkIndexedDBSupport: the value it gives
\* isIndexedDBSupported.
checkIndexedDBSupport == ~indexedDBDisabled /\ supported

\* getLocalStorageTimestamp: parsed.timestamp of a record in the new format,
\* else null (0 here: the callers only test it for truthiness).
getLocalStorageTimestamp ==
  IF localRecord # None /\ localRecord.timestamp # 0
  THEN localRecord.timestamp
  ELSE 0

\* Variant of the comparison that also prefers localStorage on equal
\* timestamps.
localIsNewerOrEqual(timestamp, localTimestamp) ==
  localTimestamp # 0 /\ timestamp <= localTimestamp

\* loadFromIndexedDB, "localStorage is newer, prefer it".
localIsNewer(timestamp, localTimestamp) ==
  localTimestamp # 0 /\ timestamp < localTimestamp

\* loadFromIndexedDB once loadAppStateWithTimestamp has resolved with
\* result: the state to adopt, or null (None).
loadFromIndexedDB(result) ==
  IF result = None THEN None
  ELSE IF localIsNewer(result.timestamp, getLocalStorageTimestamp) THEN None
  ELSE result.data

\* loadFromLocalStorage: the record with its timestamp (0 for the old
\* format), or null.
loadFromLocalStorage == localRecord

\* saveState: saveAppState puts the record with Date.now() ("idb", only
\* tried when IndexedDB is supported and enabled); when it is not tried or
\* rejects, localStorage.setItem ("local"), which may throw ("none").
saveState(state, outcome) ==
  /\ outcome = "idb" => checkIndexedDBSupport
  /\ userStore' = IF outcome = "idb"
                  THEN [data |-> state, timestamp |-> now]
                  ELSE userStore
  /\ localRecord' = IF outcome = "local"
                    THEN [data |-> state, timestamp |-> now]
                    ELSE localRecord

\* The state loadState publishes. loadAppStateWithTimestamp resolves with the
\* record (readable), or rejects; it is not called when IndexedDB is
\* unsupported or disabled for the session. The IndexedDB record when it is
\* there and not older than the localStorage one, else the localStorage
\* record, else the default state.
adoptedState(readable) ==
  LET fromIndexedDB ==
        IF checkIndexedDBSupport /\ readable
        THEN loadFromIndexedDB(userStore)
        ELSE None
  IN IF fromIndexedDB # None THEN fromIndexedDB
     ELSE IF loadFromLocalStorage # None THEN loadFromLocalStorage.data
     ELSE DefaultState

\* loadState with the saveState it ends with.
loadStateAfterRead(readable) ==
  \E outcome \in {"idb", "local", "none"} :
    LET adopted == adoptedState(readable)
    IN /\ appState' = adopted
       /\ saveState(adopted, outcome)
       /\ UNCHANGED <<cacheVars, breakerVars, loadVars, fileVars, objVars,
                      indexVars,
               outcomes, raceVars, textVars, saveVars, undoVars>>

loadState == \E readable \in BOOLEAN : loadStateAfterRead(readable)

\* setActiveInventory with the saveState it ends with.
setActiveInventory(inventoryId) ==
  \E outcome \in {"idb", "local", "none"} :
    LET updatedState == [appState EXCEPT !.activeInventoryId = inventoryId]
    IN /\ appState' = updatedState
       /\ saveState(updatedState, outcome)
       /\ UNCHANGED <<cacheVars, breakerVars, loadVars, fileVars, objVars,
                      indexVars,
               outcomes, raceVars, textVars, saveVars, undoVars>>

\* StorageService.clearAllDataIncludingCache. With IndexedDB supported and
\* enabled it calls IndexedDBService.clearAllData, which never throws:
\* forceCleanup, deleteDatabase (the deletion waits for the open
\* transactions; it succeeds, or fails and leaves the database),
\* resetSessionStateAfterClear; localStorage is left alone. Otherwise it
\* removes the localStorage record. Then the default state is published.
clearAllDataIncludingCache ==
  /\ NoCycleRunning
  /\ rpc = "done"
  /\ \A t \in Tables : pending[t] = << >>
  /\ IF checkIndexedDBSupport
     THEN /\ \E deleted \in BOOLEAN :
               /\ store' = IF deleted THEN [t \in Tables |-> {}] ELSE store
               /\ meta' = IF deleted THEN None ELSE meta
               /\ flag' = IF deleted THEN None ELSE flag
               /\ userStore' = IF deleted THEN None ELSE userStore
          /\ db' = 0
          /\ initializationPromise' = 0
          /\ initializationFailed' = FALSE
          /\ lastInitAttempt' = 0
          /\ failureCount' = 0
          /\ UNCHANGED localRecord
     ELSE /\ localRecord' = None
          /\ UNCHANGED <<store, meta, flag, userStore, db,
                         initializationPromise, initializationFailed,
                         lastInitAttempt, failureCount>>
  /\ appState' = DefaultState
  /\ UNCHANGED <<now, timeouts, pending, writerVars, readerVars>>
  /\ UNCHANGED <<indexedDBDisabled, disabledReason, sessionDisabled,
                 sessionReason, sessionKeepDisabled, attempts, attemptNow,
                 opened, ensureResult, reenabled>>
  /\ UNCHANGED <<loadVars, fileVars, objVars, indexVars,
               outcomes, raceVars, textVars, saveVars, undoVars>>

\* The catalog operations beside the user's records: DataService as
\* constructed, with the records an earlier session left, one in
\* localStorage and, where IndexedDB is supported, a later one in the
\* appState store.
InitCatalog ==
  /\ loadDataCalled
  /\ NoFetch
  /\ userStore = IF supported
                 THEN [data |-> [DefaultState EXCEPT
                                   !.activeInventoryId = "inv1"],
                       timestamp |-> MaxStamp]
                 ELSE None
  /\ localRecord = [data |-> DefaultState, timestamp |-> 1]
  /\ appState = IF userStore # None THEN userStore.data ELSE localRecord.data

NextCatalog ==
  \/ NextLoad
  \/ clearCache
  \/ clearAllDataIncludingCache

SpecCatalog == InitCatalog /\ [][NextCatalog]_vars

\* A page load in a browser with IndexedDB: the records an earlier session
\* left, written at instants 1..MaxStamp before now (the localStorage one
\* possibly in the old format).
InitUser ==
  /\ InitStore
  /\ LoaderIdle
  /\ NoFetch
  /\ userStore \in {None} \cup [data : AppStates, timestamp : 1..MaxStamp]
  /\ localRecord \in {None} \cup [data : AppStates, timestamp : 0..MaxStamp]
  /\ appState = DefaultState

NextUser ==
  \/ loadState
  \/ \E id \in {"null", "inv1"} : setActiveInventory(id)

SpecUser == InitUser /\ [][NextUser]_vars

----------------------------------------------------------------------------
(***************************************************************************)
(* DataService.loadFromCSVFilesWithProgress: the download loop, the        *)
(* grouping of the results and the parsing and combining of the parts.     *)
(* The text of a file is carried as the sequence of its lines, a line as   *)
(* the sequence of its fields (what split and parseCSVLine give); the      *)
(* empty text is << >>.                                                    *)
(***************************************************************************)
\* Two of the twelve entries of fileConfigs, in the order of the source; the
\* loop body is the same for every entry.
fileConfigs ==
  << [key |-> "parts", baseName |-> "parts"],
     [key |-> "colors", baseName |-> "colors"] >>

FileKeys == {fileConfigs[i].key : i \in 1..Len(fileConfigs)}

\* The header line and the data rows a part file can hold: part p of a table
\* holds the rows numbered p, p + MaxParts, ...
Header == <<"id", "name">>
RowNames == <<"Brick", "Plate">>
RowOf(p, k) ==
  LET id == p + (k - 1) * MaxParts
  IN <<ToString(id), RowNames[((id - 1) % Len(RowNames)) + 1]>>

\* The texts of a part file: empty (c = 0), or the header with c - 1 rows,
\* up to MaxRows.
TextOf(p, c) ==
  IF c = 0 THEN << >> ELSE <<Header>> \o [k \in 1..(c - 1) |-> RowOf(p, k)]

\* parseCSV, the conversion of a value: booleans, numbers, else the string.
typedValue(value) ==
  IF value \in {"true", "True"} THEN TRUE
  ELSE IF value \in {"false", "False"} THEN FALSE
  ELSE IF \E n \in 0..(MaxParts * MaxRows + MaxParts) : ToString(n) = value
       THEN CHOOSE n \in 0..(MaxParts * MaxRows + MaxParts) :
              ToString(n) = value
       ELSE value

\* parseCSV, the object of one line: a property per header whose value is
\* not empty.
parsedLine(headers, values) ==
  LET present == {j \in 1..Len(headers) : j <= Len(values) /\ values[j] # ""}
  IN [h \in {headers[j] : j \in present} |->
        typedValue(values[CHOOSE j \in present : headers[j] = h])]

\* parseCSV: nothing for fewer than two lines; else one object per line
\* after the header that is not blank and has a property.
RECURSIVE parsedFrom(_, _)
parsedFrom(lines, i) ==
  IF i > Len(lines) THEN << >>
  ELSE LET obj == parsedLine(lines[1], lines[i])
       IN (IF lines[i] = << >> \/ DOMAIN obj = {} THEN << >> ELSE <<obj>>)
          \o parsedFrom(lines, i + 1)

parseCSV(csv) == IF Len(csv) < 2 THEN << >> ELSE parsedFrom(csv, 2)

\* manifest[baseName] || 1: a missing entry and a zero count give 1.
partCountOf(baseName) ==
  IF baseName \in DOMAIN manifest /\ manifest[baseName] # 0
  THEN manifest[baseName]
  ELSE 1

\* Variant of the url in which every file is named as a part.
partUrl(baseName, partNum, partCount) ==
  "assets/data/" \o baseName \o "_part_" \o ToString(partNum) \o ".csv"

\* The url of the download loop: the single file when partCount === 1,
\* else the part file.
url(baseName, partNum, partCount) ==
  IF partCount = 1
  THEN "assets/data/" \o baseName \o ".csv"
  ELSE "assets/data/" \o baseName \o "_part_" \o ToString(partNum) \o ".csv"

\* The requests of the download loop, in its order: for each fileConfigs
\* entry the parts 1..(manifest[baseName] || 1).
RECURSIVE requestsFrom(_)
requestsFrom(i) ==
  IF i > Len(fileConfigs) THEN << >>
  ELSE LET c == fileConfigs[i]
           partCount == partCountOf(c.baseName)
       IN [partNum \in 1..partCount |->
             [key |-> c.key, baseName |-> c.baseName, part |-> partNum,
              totalParts |-> partCount,
              url |-> url(c.baseName, partNum, partCount)]]
          \o requestsFrom(i + 1)

requests == requestsFrom(1)

\* One pass of the download loop body: the awaited http.get resolves and
\* its text is pushed, or it fails or times out and the catch block pushes
\* the empty text (failed notes which of the two pushes it was, url the
\* address that was asked for).
download ==
  /\ fpc = "download"
  /\ LET q == requests[Len(results) + 1] IN
       \E ok \in BOOLEAN :
         results' = Append(results,
                           [key |-> q.key,
                            csv |-> IF ok THEN files[<<q.baseName, q.part>>]
                                    ELSE << >>,
                            part |-> q.part, totalParts |-> q.totalParts,
                            failed |-> ~ok, url |-> q.url])
  /\ fpc' = IF Len(results) + 1 = Len(requests) THEN "process" ELSE "download"
  /\ UNCHANGED <<manifest, files, csvRows>>
  /\ UNCHANGED <<cacheVars, breakerVars, loadVars, userVars, objVars, indexVars,
               outcomes, raceVars, textVars, saveVars, undoVars>>

\* Variant of the grouping in which a table with a failed part gets no
\* group.
groupedUnlessFailed(key) ==
  IF \E i \in 1..Len(results) : results[i].key = key /\ results[i].failed
  THEN << >>
  ELSE SelectSeq(results, LAMBDA r : r.key = key /\ r.csv # << >>)

\* groupedResults.get(key): the results of the key whose text is not empty,
\* in the order of results.
grouped(key) == SelectSeq(results, LAMBDA r : r.key = key /\ r.csv # << >>)

\* parts.sort((a, b) => a.part - b.part).
RECURSIVE sortByPart(_)
sortByPart(parts) ==
  IF parts = << >> THEN << >>
  ELSE LET i == CHOOSE i \in 1..Len(parts) :
                  \A j \in 1..Len(parts) :
                    /\ parts[i].part <= parts[j].part
                    /\ parts[i].part = parts[j].part => i <= j
       IN <<parts[i]>>
          \o sortByPart([k \in 1..(Len(parts) - 1) |->
                           IF k < i THEN parts[k] ELSE parts[k + 1]])

\* Variant of the combining step that puts the later part first.
prepended(combinedData, partData) == partData \o combinedData

\* combinedData.concat(partData).
concat(combinedData, partData) == combinedData \o partData

\* The loop over the sorted parts: parse each and append its rows.
RECURSIVE combined(_, _, _)
combined(parts, i, combinedData) ==
  IF i > Len(parts) THEN combinedData
  ELSE combined(parts, i + 1, concat(combinedData, parseCSV(parts[i].csv)))

\* csvData[key] after the processing loop: [] without a group, the parsed
\* text of a single part, else the combined parts.
processed(key) ==
  LET parts == grouped(key) IN
  IF parts = << >> THEN << >>
  ELSE IF Len(parts) = 1 THEN parseCSV(parts[1].csv)
  ELSE combined(sortByPart(parts), 1, << >>)

\* Grouping, parsing and combining, and the return of csvData.
process ==
  /\ fpc = "process"
  /\ csvRows' = [key \in FileKeys |-> processed(key)]
  /\ fpc' = "done"
  /\ UNCHANGED <<manifest, files, results>>
  /\ UNCHANGED <<cacheVars, breakerVars, loadVars, userVars, objVars, indexVars,
               outcomes, raceVars, textVars, saveVars, undoVars>>

\* loadFromCSVFilesWithProgress once the manifest is read: parts lists 1 to
\* MaxParts parts, colors one file (the default); the server holds a text
\* for each of them.
InitFetch ==
  /\ InitStore
  /\ LoaderIdle
  /\ userStore = None
  /\ localRecord = None
  /\ appState = DefaultState
  /\ \E n \in 1..MaxParts : manifest = [parts |-> n, colors |-> 1]
  /\ \E c \in [1..MaxParts -> 0..(MaxRows + 1)], d \in 0..(MaxRows + 1) :
       /\ \A p \in 1..MaxParts : p > manifest["parts"] => c[p] = 0
       /\ files = [q \in {"parts", "colors"} \X (1..MaxParts) |->
                     IF q[1] = "parts" THEN TextOf(q[2], c[q[2]])
                     ELSE IF q[2] = 1 THEN TextOf(1, d)
                     ELSE << >>]
  /\ fpc = "download"
  /\ results = << >>
  /\ csvRows = << >>
  /\ tableKind = "none"
  /\ tableData = << >>
  /\ objectStore = {}
  /\ opc = "idle"
  /\ loaded = None
  /\ NoIndex

NextFetch ==
  \/ download
  \/ process

SpecFetch == InitFetch /\ [][NextFetch]_vars

\* The manifest of the catch block: one file for every table.
defaultManifest == [parts |-> 1, colors |-> 1]

\* What the server answers for assets/data/manifest.json: no answer
\* (http.get rejects), a text JSON.parse throws on, or the text of an object
\* with a part count for some of the tables.
manifestObjects ==
  UNION {[S -> 0..MaxParts] : S \in SUBSET {"parts", "colors"}}

manifestResponses ==
  {[ok |-> FALSE, parsable |-> FALSE, object |-> << >>],
   [ok |-> TRUE, parsable |-> FALSE, object |-> << >>]}
  \cup {[ok |-> TRUE, parsable |-> TRUE, object |-> m] : m \in manifestObjects}

manifestFile == <<"manifest", 1>>

\* The try / catch around the manifest request: JSON.parse of the text, or
\* the default manifest.
loadManifest ==
  /\ fpc = "manifest"
  /\ manifest' = IF files[manifestFile].ok /\ files[manifestFile].parsable
                 THEN files[manifestFile].object
                 ELSE defaultManifest
  /\ fpc' = "download"
  /\ UNCHANGED <<files, results, csvRows>>
  /\ UNCHANGED <<cacheVars, breakerVars, loadVars, userVars, objVars, indexVars,
               outcomes, raceVars, textVars, saveVars, undoVars>>

\* loadFromCSVFilesWithProgress as called: the server holds some answer for
\* the manifest and a text of one row for every file name.
InitManifest ==
  /\ InitStore
  /\ LoaderIdle
  /\ userStore = None
  /\ localRecord = None
  /\ appState = DefaultState
  /\ manifest = << >>
  /\ \E resp \in manifestResponses :
       files = [q \in ({"parts", "colors"} \X (1..MaxParts)) \cup {manifestFile}
                  |-> IF q = manifestFile THEN resp ELSE TextOf(q[2], 2)]
  /\ fpc = "manifest"
  /\ results = << >>
  /\ csvRows = << >>
  /\ tableKind = "none"
  /\ tableData = << >>
  /\ objectStore = {}
  /\ opc = "idle"
  /\ loaded = None
  /\ NoIndex

NextManifest ==
  \/ loadManifest
  \/ download
  \/ process

SpecManifest == InitManifest /\ [][NextManifest]_vars

----------------------------------------------------------------------------
(***************************************************************************)
(* DataService.parseCSV and parseCSVLine on the characters of a file. A    *)
(* text is a sequence of one-character strings.                            *)
(***************************************************************************)
\* String.prototype.trim: the white space of the texts modelled.
whiteSpace == {" ", "\t", "\n", "\r"}

RECURSIVE trimStart(_)
trimStart(t) ==
  IF t # << >> /\ Head(t) \in whiteSpace THEN trimStart(Tail(t)) ELSE t

RECURSIVE trimEnd(_)
trimEnd(t) ==
  IF t # << >> /\ t[Len(t)] \in whiteSpace
  THEN trimEnd(SubSeq(t, 1, Len(t) - 1))
  ELSE t

trim(t) == trimEnd(trimStart(t))

\* replace(/c/g, '').
without(t, c) == SelectSeq(t, LAMBDA x : x # c)

\* csv.replace(/\r\n/g, '\n').replace(/\r/g, '\n').
RECURSIVE normalized(_, _)
normalized(t, i) ==
  IF i > Len(t) THEN << >>
  ELSE IF t[i] = "\r" /\ i < Len(t) /\ t[i + 1] = "\n"
  THEN <<"\n">> \o normalized(t, i + 2)
  ELSE IF t[i] = "\r" THEN <<"\n">> \o normalized(t, i + 1)
  ELSE <<t[i]>> \o normalized(t, i + 1)

\* normalizedCsv.split('\n'): the lines from character i on, current being
\* the line read so far.
RECURSIVE split(_, _, _)
split(t, i, current) ==
  IF i > Len(t) THEN <<current>>
  ELSE IF t[i] = "\n" THEN <<current>> \o split(t, i + 1, << >>)
  ELSE split(t, i + 1, Append(current, t[i]))

\* parseCSVLine: result.push(current.trim().replace(/\r/g, '')).
pushed(current) == without(trim(current), "\r")

\* parseCSVLine, the while loop from index i on (1-based here).
RECURSIVE lineFields(_, _, _, _)
lineFields(line, i, current, inQuotes) ==
  IF i > Len(line) THEN <<pushed(current)>>
  ELSE IF line[i] = "\"" /\ inQuotes /\ i < Len(line) /\ line[i + 1] = "\""
  THEN lineFields(line, i + 2, Append(current, "\""), inQuotes)
  ELSE IF line[i] = "\"" THEN lineFields(line, i + 1, current, ~inQuotes)
  ELSE IF line[i] = "," /\ ~inQuotes
  THEN <<pushed(current)>> \o lineFields(line, i + 1, << >>, inQuotes)
  ELSE lineFields(line, i + 1, Append(current, line[i]), inQuotes)

parseCSVLine(line) == lineFields(line, 1, << >>, FALSE)

\* The characters parseCSV removes from a header besides \r and \n: the
\* control characters of the texts modelled.
controlCharacters == {"\t"}

\* parseCSV, the cleaning of a header.
cleanHeader(h) ==
  SelectSeq(without(without(trim(h), "\r"), "\n"),
            LAMBDA x : x \notin controlCharacters)

\* parseCSV, the cleaning of a value:
\* values[j]?.trim().replace(/\r/g, '').replace(/\n/g, '').
cleanValue(v) == without(without(trim(v), "\r"), "\n")

\* Number(value) of a non-empty run of decimal digits.
digits == {"0", "1"}
digit(c) == IF c = "1" THEN 1 ELSE 0

RECURSIVE numberOf(_)
numberOf(v) ==
  IF v = << >> THEN 0
  ELSE 10 * numberOf(SubSeq(v, 1, Len(v) - 1)) + digit(v[Len(v)])

\* parseCSV, the conversion of a value, for the characters modelled: the
\* booleans, a number for a run of digits, else the string.
typedText(value) ==
  IF value \in {<<"t", "r", "u", "e">>, <<"T", "r", "u", "e">>} THEN TRUE
  ELSE IF value \in {<<"f", "a", "l", "s", "e">>, <<"F", "a", "l", "s", "e">>}
  THEN FALSE
  ELSE IF \A k \in 1..Len(value) : value[k] \in digits THEN numberOf(value)
  ELSE value

\* parseCSV, headers.forEach over the values of one line, from header j on.
RECURSIVE objectFrom(_, _, _, _)
objectFrom(headers, values, j, obj) ==
  IF j > Len(headers) THEN obj
  ELSE IF j > Len(values) \/ cleanValue(values[j]) = << >>
  THEN objectFrom(headers, values, j + 1, obj)
  ELSE objectFrom(headers, values, j + 1,
                  mapSet(obj, headers[j], typedText(cleanValue(values[j]))))

\* parseCSV, the loop over the lines after the first.
RECURSIVE recordsFrom(_, _, _)
recordsFrom(lines, headers, i) ==
  IF i > Len(lines) THEN << >>
  ELSE LET line == trim(lines[i])
           obj == objectFrom(headers, parseCSVLine(line), 1, << >>)
       IN (IF line = << >> \/ DOMAIN obj = {} THEN << >> ELSE <<obj>>)
          \o recordsFrom(lines, headers, i + 1)

\* parseCSV on the characters of a file.
parseCSVText(csv) ==
  LET lines == split(normalized(csv, 1), 1, << >>) IN
  IF Len(lines) < 2 THEN << >>
  ELSE recordsFrom(lines,
                   [j \in 1..Len(parseCSVLine(lines[1])) |->
                      cleanHeader(parseCSVLine(lines[1])[j])],
                   2)

\* The file of a table, as a CSV writer makes it: a field that holds the
\* separator, a quote or a line feed is put between quotes with its quotes
\* doubled; the lines end in LF, CR or CRLF.
fieldChars == {"a", "1", ",", "\"", "\n"}

RECURSIVE doubled(_)
doubled(f) ==
  IF f = << >> THEN << >>
  ELSE (IF Head(f) = "\"" THEN <<"\"", "\"">> ELSE <<Head(f)>>)
       \o doubled(Tail(f))

writtenField(f) ==
  IF \E k \in 1..Len(f) : f[k] \in {",", "\"", "\n"}
  THEN <<"\"">> \o doubled(f) \o <<"\"">>
  ELSE f

lineEndings == {"LF", "CR", "CRLF"}

endOfLine(e) ==
  IF e = "LF" THEN <<"\n">>
  ELSE IF e = "CR" THEN <<"\r">>
  ELSE <<"\r", "\n">>

\* The one column of the tables modelled.
columnName == <<"h">>

RECURSIVE writtenRows(_, _, _)
writtenRows(rows, e, i) ==
  IF i > Len(rows) THEN << >>
  ELSE endOfLine(e) \o writtenField(rows[i]) \o writtenRows(rows, e, i + 1)

writtenTable(rows, e) == columnName \o writtenRows(rows, e, 1)

\* The fields of up to MaxLen characters, and the tables of one or two rows
\* of one field.
fieldValues == UNION {[1..n -> fieldChars] : n \in 1..MaxLen}

tablesOfFields ==
  {<<f>> : f \in fieldValues} \cup {<<f, g>> : f \in fieldValues, g \in {<<"a">>}}

\* parseCSV is about to be given the file of some table.
InitCsv ==
  /\ InitStore
  /\ LoaderIdle
  /\ userStore = None
  /\ localRecord = None
  /\ appState = DefaultState
  /\ manifest = << >>
  /\ files = << >>
  /\ fpc = "idle"
  /\ results = << >>
  /\ csvRows = << >>
  /\ tableKind = "none"
  /\ tableData = << >>
  /\ objectStore = {}
  /\ opc = "idle"
  /\ loaded = None
  /\ NoMaps
  /\ \E rows \in tablesOfFields, e \in lineEndings :
       /\ logical = [rows |-> rows, ending |-> e]
       /\ csvText = writtenTable(rows, e)
  /\ parsed = [done |-> FALSE, records |-> << >>]

\* this.parseCSV(csv).
parseText ==
  /\ ~parsed.done
  /\ parsed' = [done |-> TRUE, records |-> parseCSVText(csvText)]
  /\ UNCHANGED <<logical, csvText>>
  /\ UNCHANGED <<cacheVars, breakerVars, loadVars, dataVars, outcomes,
                 raceVars, saveVars, undoVars>>

NextCsv == parseText

SpecCsv == InitCsv /\ [][NextCsv]_vars

----------------------------------------------------------------------------
(***************************************************************************)
(* IndexedDBService.saveToObjectStore and loadFromObjectStore on one       *)
(* object store, with the keys the store files the records under: the      *)
(* composite keys of the key generators for the stores created without a   *)
(* key path, the value at the key path for the others.                     *)
(***************************************************************************)
\* The stores created without a key path; storeDataSteps gives each of
\* them a key generator.
keylessStores ==
  {"inventoryParts", "inventoryMinifigs", "inventorySets",
   "partRelationships"}

\* The key path of the stores created with one (parts stands for them).
keyPath == [parts |-> "part_num"]

StoreKinds == keylessStores \cup DOMAIN keyPath

\* item?.f?.toString() || 'unknown' for a numeric field: a record parsed
\* from a line without the value lacks the property.
numberOrUnknown(item, f) ==
  IF f \in DOMAIN item THEN ToString(item[f]) ELSE "unknown"

\* item?.f || 'unknown' for a string field.
stringOrUnknown(item, f) ==
  IF f \in DOMAIN item /\ item[f] # "" THEN item[f] ELSE "unknown"

generateInventoryPartKey(item) ==
  LET inventoryId == numberOrUnknown(item, "inventory_id")
      partNum == stringOrUnknown(item, "part_num")
      colorId == numberOrUnknown(item, "color_id")
      spareFlag == IF "is_spare" \in DOMAIN item /\ item["is_spare"]
                   THEN "spare" ELSE "normal"
  IN inventoryId \o "_" \o partNum \o "_" \o colorId \o "_" \o spareFlag

generateInventoryMinifigKey(item) ==
  LET inventoryId == numberOrUnknown(item, "inventory_id")
      figNum == stringOrUnknown(item, "fig_num")
  IN inventoryId \o "_" \o figNum

generateInventorySetKey(item) ==
  LET inventoryId == numberOrUnknown(item, "inventory_id")
      setNum == stringOrUnknown(item, "set_num")
  IN inventoryId \o "_" \o setNum

generatePartRelationshipKey(item) ==
  LET childPart == stringOrUnknown(item, "child_part_num")
      parentPart == stringOrUnknown(item, "parent_part_num")
  IN childPart \o "_" \o parentPart

\* The key a put files an item under: keyGenerator(item) handed to
\* put(item, key) where storeDataSteps names a generator, else the value at
\* the store's key path.
keyOf(kind, item) ==
  CASE kind = "inventoryParts" -> generateInventoryPartKey(item)
    [] kind = "inventoryMinifigs" -> generateInventoryMinifigKey(item)
    [] kind = "inventorySets" -> generateInventorySetKey(item)
    [] kind = "partRelationships" -> generatePartRelationshipKey(item)
    [] OTHER -> item[keyPath[kind]]

\* The records a table can hold, as parseCSV types them (a property whose
\* value is empty in the file is absent).
RecordsOf(kind) ==
  CASE kind = "inventoryParts" ->
         [inventory_id : {1}, part_num : {"3001a"}, color_id : {0, 4},
          quantity : {1, 2}, is_spare : BOOLEAN]
    [] kind = "inventoryMinifigs" ->
         [inventory_id : {1, 2}, fig_num : {"fig-000001"}, quantity : {1, 2}]
         \cup [inventory_id : {1, 2}, quantity : {1}]
    [] kind = "inventorySets" ->
         [inventory_id : {1, 2}, set_num : {"75192-1", "10497-1"},
          quantity : {1, 2}]
    [] kind = "partRelationships" ->
         [rel_type : {"A", "M"}, child_part_num : {"3001a", "3002b"},
          parent_part_num : {"3003c"}]
    [] OTHER ->
         [part_num : {"3001a", "3002b"}, name : {"Brick", "Plate"},
          part_cat_id : {11}]

\* The tables handed to saveToObjectStore: 1 to MaxRows records (an empty
\* table is skipped by the caller); a table of a store with a key path has
\* one record per value of its primary key.
TablesOf(kind) ==
  {t \in UNION {[1..n -> RecordsOf(kind)] : n \in 1..MaxRows} :
     kind \in DOMAIN keyPath =>
       \A i, j \in 1..Len(t) :
         t[i][keyPath[kind]] = t[j][keyPath[kind]] => i = j}

\* batchStore.put(item, key) / put(item): the record replaces the one filed
\* under the same key, if any.
put(os, key, item) == {e \in os : e[1] # key} \cup {<<key, item>>}

\* The puts of a batch, in the order of batch.forEach.
RECURSIVE putAll(_, _, _, _)
putAll(os, kind, batch, i) ==
  IF i > Len(batch) THEN os
  ELSE putAll(put(os, keyOf(kind, batch[i]), batch[i]), kind, batch, i + 1)

\* saveToObjectStore, the clear transaction.
clearObjectStore ==
  /\ opc = "clear"
  /\ objectStore' = {}
  /\ opc' = "batch"
  /\ UNCHANGED <<tableKind, tableData, loaded>>
  /\ UNCHANGED <<cacheVars, breakerVars, loadVars, userVars, fileVars,
               indexVars,
               outcomes, raceVars, textVars, saveVars, undoVars>>

\* saveToObjectStore, the batch transaction: a table of fewer than 10000
\* records is one batch; every put succeeds and the transaction completes.
putBatch ==
  /\ opc = "batch"
  /\ objectStore' = putAll(objectStore, tableKind, tableData, 1)
  /\ opc' = "saved"
  /\ UNCHANGED <<tableKind, tableData, loaded>>
  /\ UNCHANGED <<cacheVars, breakerVars, loadVars, userVars, fileVars,
               indexVars,
               outcomes, raceVars, textVars, saveVars, undoVars>>

\* loadFromObjectStore: getAll resolves with the records of the store (in
\* key order, which the set leaves out).
loadFromObjectStore ==
  /\ opc = "saved"
  /\ loaded' = {e[2] : e \in objectStore}
  /\ opc' = "loaded"
  /\ UNCHANGED <<tableKind, tableData, objectStore>>
  /\ UNCHANGED <<cacheVars, breakerVars, loadVars, userVars, fileVars,
               indexVars,
               outcomes, raceVars, textVars, saveVars, undoVars>>

\* saveToObjectStore is called with a table of one of the stores; the store
\* is empty or holds a record of an earlier cycle.
InitStoreTable ==
  /\ InitStore
  /\ LoaderIdle
  /\ userStore = None
  /\ localRecord = None
  /\ appState = DefaultState
  /\ manifest = << >>
  /\ files = << >>
  /\ fpc = "idle"
  /\ results = << >>
  /\ csvRows = << >>
  /\ tableKind \in StoreKinds
  /\ tableData \in TablesOf(tableKind)
  /\ \E old \in RecordsOf(tableKind) :
       objectStore \in {{}, {<<keyOf(tableKind, old), old>>}}
  /\ opc = "clear"
  /\ loaded = None
  /\ NoIndex

NextStore ==
  \/ clearObjectStore
  \/ putBatch
  \/ loadFromObjectStore

SpecStore == InitStoreTable /\ [][NextStore]_vars

\* C11: ready is signalled with empty in-memory tables only by a run whose
\* fetch of the source files failed or yielded nothing; a run whose read of
\* the cache throws or returns nothing goes on to fetch.
C11_EmptyReadyOnlyAfterFetch ==
  [][\A r \in Runs :
       (~lemitted[r] /\ lemitted'[r] /\ memory' = "empty") =>
         (lpc[r] = "fetch" \/ csvData[r] = "empty")]_vars

\* C12: every call of refreshCSVData starts a loadData run, which fetches
\* unless the validator accepts the store again.
C12_RefreshAlwaysReloads ==
  [][\A r \in Runs : refreshCSVData(r) => lpc'[r] \in {"check", "fetch"}]_vars


\* Age of the metadata record and of the marker.
cacheAge == now - meta.timestamp
flagAge == now - flag.timestamp

\* C13: the validator accepts no cache whose metadata age is 12 h or more.
C13_TwelveHoursOrMoreUnusable ==
  (rpc = "done" /\ rresult) =>
    (meta # None /\ cacheAge < CSV_CACHE_EXPIRY_HOURS * MS_PER_HOUR)

\* C14 as stated: a marker younger than 30 minutes makes the validator
\* return false; a marker older than 30 minutes lets validation go on to the
\* metadata check and is removed from the store.
C14_MarkerDecides ==
  /\ [][(isPopulationInProgress /\ flag # None /\ flagAge < thirtyMinutes)
         => (rpc' = "done" /\ ~rresult')]_vars
  /\ [][(isPopulationInProgress /\ flag # None /\ flagAge > thirtyMinutes)
         => rpc' = "meta"]_vars
  /\ [][staleFlagCleanup => flag' = None]_vars

\* C14, amended: a marker younger than 30 minutes that the validator reads
\* makes it return false; a marker older than 30 minutes never makes it
\* return false, and when read it starts a removal that the validator does
\* not wait for, which leaves the store without marker unless its delete
\* fails.
C14_ReadMarkerDecides ==
  /\ [][(isPopulationInProgress /\ flag # None /\ flagAge < thirtyMinutes
          /\ ~populationFlagUnreadable)
         => (rpc' = "done" /\ ~rresult' /\ ~staleCleanup')]_vars
  /\ [][(isPopulationInProgress /\ flag # None /\ flagAge > thirtyMinutes)
         => rpc' = "meta"]_vars
  /\ [][(isPopulationInProgress /\ flag # None /\ flagAge > thirtyMinutes
          /\ ~populationFlagUnreadable)
         => staleCleanup']_vars
  /\ [][staleFlagCleanup => flag' \in {None, flag}]_vars

\* A stale marker was read, its removal is under way and the validator is
\* counting rows.
C14_Witness ==
  /\ flag # None
  /\ flagAge > thirtyMinutes
  /\ staleCleanup
  /\ rpc = "count"


CatalogStep ==
  \/ \E r \in Runs : refreshCSVData(r)
  \/ clearCache
  \/ \E w \in Cycles : saveCSVDataCache(w)
  \/ \E r \in Runs : loadData(r)
  \/ performCacheValidation

\* C16: the steps of the catalog operations leave the appState record of
\* IndexedDB and the localStorage record as they are, and among the catalog
\* operations and the wipe only clearAllDataIncludingCache changes either.
C16_CatalogLeavesUserData ==
  /\ [][CatalogStep => UNCHANGED <<userStore, localRecord>>]_vars
  /\ [][(userStore' # userStore \/ localRecord' # localRecord)
         => clearAllDataIncludingCache]_vars

\* A refresh has cleared the cache, fetched, saved and published the
\* catalog again, with both of the user's records in place.
C16_Witness ==
  /\ userStore # None
  /\ localRecord # None
  /\ started >= 1
  /\ \E r \in Runs \ {1} : lpc[r] = "completed"


\* The parts of a table's file the download loop asked for, and the rows of
\* the parts in 1..n that were fetched, part after part.
partFailed(key, p) ==
  \E i \in 1..Len(results) :
    results[i].key = key /\ results[i].part = p /\ results[i].failed

RECURSIVE rowsOfFetchedParts(_, _, _)
rowsOfFetchedParts(key, p, n) ==
  IF p > n THEN << >>
  ELSE (IF partFailed(key, p) THEN << >> ELSE parseCSV(files[<<key, p>>]))
       \o rowsOfFetchedParts(key, p + 1, n)

\* C17: when fetches of file parts have failed, the load still returns, and
\* every table holds exactly the rows of its parts that were fetched.
C17_FailedPartOnlyLosesItsRows ==
  (fpc = "done" /\ \E i \in 1..Len(results) : results[i].failed) =>
    \A key \in FileKeys :
      csvRows[key] = rowsOfFetchedParts(key, 1, manifest[key])

\* Part 1 of parts failed; part 2 and colors were fetched and their rows,
\* and nothing else, are in the tables returned.
C17_Witness ==
  /\ fpc = "done"
  /\ manifest["parts"] = MaxParts
  /\ partFailed("parts", 1)
  /\ \A p \in 2..MaxParts : ~partFailed("parts", p)
  /\ ~partFailed("colors", 1)
  /\ Len(files[<<"parts", 1>>]) > 1
  /\ csvRows["parts"] # << >>
  /\ csvRows["colors"] # << >>

\* C18: a table of n > 1 parts, all fetched, is the rows of part 1, then of
\* part 2, and so on to part n.
C18_PartsInPartOrder ==
  fpc = "done" =>
    \A key \in FileKeys :
      (manifest[key] > 1 /\ \A p \in 1..manifest[key] : ~partFailed(key, p))
        => csvRows[key] = rowsOfFetchedParts(key, 1, manifest[key])

\* Two parts with the rows (1, Brick) and (2, Plate) gave those two rows in
\* that order.
C18_Witness ==
  /\ fpc = "done"
  /\ manifest["parts"] = 2
  /\ files[<<"parts", 1>>] = <<Header, <<"1", "Brick">>>>
  /\ files[<<"parts", 2>>] = <<Header, <<"2", "Plate">>>>
  /\ csvRows["parts"] = <<[id |-> 1, name |-> "Brick"],
                          [id |-> 2, name |-> "Plate"]>>

\* The records of the table written, as a set.
written == {tableData[i] : i \in 1..Len(tableData)}

\* C19: a table written by saveToObjectStore with no write failure and read
\* back by loadFromObjectStore gives the set of records that was written.
C19_RoundTrip ==
  opc = "loaded" => loaded = written

\* C20: two distinct records of a table of a store without a key path are
\* filed under different composite keys.
C20_CompositeKeysInjective ==
  (opc = "saved" /\ tableKind \in keylessStores) =>
    \A i, j \in 1..Len(tableData) :
      tableData[i] # tableData[j]
        => keyOf(tableKind, tableData[i]) # keyOf(tableKind, tableData[j])

\* The indices built once, from empty maps, over the in-memory tables m.
builtOnce(m) ==
  /\ partsCache' = cachedParts(<< >>, partsTable(m), 1)
  /\ inventoryPartsCache' =
       indexedInventoryParts(<< >>, inventoryPartsTable(m), 1)

\* C21: while the indices stay initialized no step changes a map, and when
\* the loadData run of a refresh completes the maps are those built once
\* from the tables it loaded.
C21_IndicesBuiltOncePerGeneration ==
  [][/\ (cacheInitialized /\ cacheInitialized') => UNCHANGED indexVars
     /\ \A r \in Runs \ {1} :
          (lpc[r] = "memory" /\ lpc'[r] = "completed") => builtOnce(memory')
    ]_vars

\* C22: the validator returns true only with a metadata record in the
\* metadata partition and every counted partition at or above its minimum;
\* a metadata read that finds no record and a count below the minimum end
\* the run with false.
C22_TrueNeedsMetadataAndCounts ==
  /\ []((rpc = "done" /\ rresult) =>
          /\ meta # None
          /\ \A j \in 1..Len(validationChecks) :
               Cardinality(store[validationChecks[j]])
                 >= minCount(validationChecks[j]))
  /\ [][(loadCSVMetadata /\ meta = None) => (rpc' = "done" /\ ~rresult')]_vars
  /\ [][(quickStoreCountCheck
          /\ Cardinality(store[validationChecks[rj]])
               < minCount(validationChecks[rj]))
         => (rpc' = "done" /\ ~rresult')]_vars

\* The validator has returned true over a cache with metadata and full
\* partitions.
C22_Witness ==
  /\ rpc = "done"
  /\ rresult
  /\ meta # None
  /\ \A j \in 1..Len(validationChecks) :
       Cardinality(store[validationChecks[j]]) >= minCount(validationChecks[j])

\* The step of run r that signals ready, and the answer the validator gave
\* the run, read off the run's position.
Ready(r) == ~lemitted[r] /\ lemitted'[r]

ToldUsable(r) ==
  \/ lpc[r] = "loadCache"
  \/ lpc[r] = "memory" /\ csvData[r] \in {"cached", "null"}

ToldUnusable(r) ==
  \/ lpc[r] \in {"fetch", "save", "saving"}
  \/ lpc[r] = "memory" /\ csvData[r] \in {"data", "empty"}

kinds(h) == [i \in 1..Len(h) |-> h[i][1]]

\* Three failed attempts in a row somewhere in the history h.
threeInARow(h) ==
  \E i \in 1..(Len(h) - 2) :
    h[i][1] = "F" /\ h[i + 1][1] = "F" /\ h[i + 2][1] = "F"

\* C24: an attempt that succeeds sets the failure counter to zero, and the
\* store is enabled as long as no three attempts in a row have failed: two
\* failures, a success and two more failures leave it enabled.
C24_OnlyConsecutiveFailuresCount ==
  /\ [][\A a \in 1..MaxRetries : openSucceeded(a) => failureCount' = 0]_vars
  /\ [](~threeInARow(outcomes) => ~indexedDBDisabled)
  /\ [](kinds(outcomes) = <<"F", "F", "S", "F", "F">>
          => (failureCount = 2 /\ ~indexedDBDisabled))

\* Two failed attempts, a success, two more failed attempts: the store is
\* enabled with a count of two.
C24_Witness ==
  /\ kinds(outcomes) = <<"F", "F", "S", "F", "F">>
  /\ failureCount = 2
  /\ ~indexedDBDisabled

\* The last attempt to settle failed.
lastFailed == outcomes # << >> /\ outcomes[Len(outcomes)][1] = "F"

\* The instant at which the last attempt settled, and the instant at which
\* it had been started.
lastRecorded == outcomes[Len(outcomes)][2]
lastStarted == attemptNow[Len(outcomes)]

\* An ensureDB call refused by the cool-down: nothing started, nothing
\* counted, nothing disabled.
refusedByCooldown ==
  /\ ensureResult' = "failedRecently"
  /\ UNCHANGED <<failureCount, indexedDBDisabled, initializationPromise,
                 attempts, opened>>

\* C25 as stated: during the 30 s after a failed initialization is recorded
\* every ensureDB call of an enabled store is refused by the cool-down, and a
\* call after those 30 s, with no attempt in progress, starts an attempt.
C25_CooldownFromRecording ==
  [][(ensureDBWithin(MaxWindows) /\ lastFailed /\ ~indexedDBDisabled) =>
       IF now - lastRecorded < MIN_RETRY_INTERVAL
       THEN refusedByCooldown
       ELSE attempts = {} => ensureResult' = "started"]_vars

\* C25, amended: the 30 s run from the start of the attempt that failed.
C25_CooldownFromAttemptStart ==
  [][(ensureDBWithin(MaxWindows) /\ lastFailed /\ ~indexedDBDisabled) =>
       IF now - lastStarted < MIN_RETRY_INTERVAL
       THEN refusedByCooldown
       ELSE attempts = {} => ensureResult' = "started"]_vars

\* A call was refused by the cool-down after one failure recorded by the
\* timer, the store being enabled.
C25_Witness ==
  /\ Len(outcomes) = 1
  /\ lastFailed
  /\ lastRecorded = T0 + timeoutDuration
  /\ ensureResult = "failedRecently"
  /\ failureCount = 1
  /\ ~indexedDBDisabled

\* C26: a failed batch transaction of saveToObjectStore is recorded by the
\* circuit breaker like a failed open: it adds one to the failure count, and
\* the store is disabled when the count reaches three.
C26_FailedTransactionCounted ==
  [][\A w \in Cycles :
       batchErrored(w) =>
         /\ failureCount' = failureCount + 1
         /\ indexedDBDisabled' =
              (indexedDBDisabled \/ thresholdReached(failureCount'))]_vars

\* C27: a batch that acknowledges fewer records than were submitted does
\* not fail the cycle: the writer goes on to the next batch, the next table
\* or the metadata write; and a run that fetched the tables ends with all of
\* them in memory and the ready signal, whatever the save left in the store.
C27_MismatchOnlyLogged ==
  /\ [][\A w \in Cycles :
          batchShort(w) =>
            /\ wpc'[w] \in {"batch", "clear", "meta"}
            /\ wpc'[w] = AfterBatch(w).pc
            /\ meta' = meta]_vars
  /\ [][\A r \in Runs :
          (loadDataIntoMemory(r) /\ csvData[r] = "data") =>
            (memory' = "data" /\ dataLoaded' /\ lpc'[r] = "completed")]_vars

\* The first run has completed with the tables in memory after a cycle that
\* wrote the last partition and the metadata record although the first
\* partition took none of its records.
C27_Witness ==
  /\ lpc[1] = "completed"
  /\ memory = "data"
  /\ meta # None
  /\ flag = None
  /\ store["themes"] = Records(Keys, 1)
  /\ store["inventories"] = {}

\* C28: when the timer wins, the open attempt is rejected and counted as
\* one failure and the metadata read gives "absent"; a later completion of
\* the operation that lost the race changes nothing: no connection is
\* installed, the value already returned stays, and the state of the service
\* is what it was.
C28_LateCompletionChangesNothing ==
  [][/\ \A a \in 1..MaxWindows :
          timerWon(a) =>
            (a \notin attempts' /\ failureCount' = failureCount + 1)
     /\ \A a \in 1..MaxWindows :
          (lateSuccess(a) \/ lateError(a)) => UNCHANGED breakerVars
     /\ metadataTimedOut => mread'.result = "absent"
     /\ metadataLate =>
          (mread'.result = mread.result /\ UNCHANGED breakerVars)]_vars

\* The manifest gives no part count for the table of base name b: it could
\* not be fetched or parsed, or the object has no entry for b.
noEntry(b) ==
  \/ ~files[manifestFile].ok
  \/ ~files[manifestFile].parsable
  \/ b \notin DOMAIN files[manifestFile].object

\* What the download loop pushed for the key so far.
pushedFor(key) == SelectSeq(results, LAMBDA r : r.key = key)

\* C29: for a table the manifest gives no part count for, the loader asks
\* for exactly one file, <base>.csv, and for no <base>_part_<n> file.
C29_NoEntryMeansSingleFile ==
  fpc # "manifest" =>
    \A i \in 1..Len(fileConfigs) :
      noEntry(fileConfigs[i].baseName) =>
        /\ Len(pushedFor(fileConfigs[i].key)) <= 1
        /\ \A j \in 1..Len(pushedFor(fileConfigs[i].key)) :
             pushedFor(fileConfigs[i].key)[j].url =
               "assets/data/" \o fileConfigs[i].baseName \o ".csv"
        /\ fpc \in {"process", "done"} =>
             Len(pushedFor(fileConfigs[i].key)) = 1

\* The manifest lists two parts of parts and nothing for colors; the loader
\* is done, having asked for colors.csv.
C29_Witness ==
  /\ fpc = "done"
  /\ files[manifestFile].ok
  /\ files[manifestFile].parsable
  /\ DOMAIN files[manifestFile].object = {"parts"}
  /\ files[manifestFile].object["parts"] = 2
  /\ Len(results) = 3
  /\ results[3].url = "assets/data/colors.csv"

\* The records of the table rows: one per row whose field, cleaned as
\* parseCSV cleans a value, is not empty.
RECURSIVE recordsOfRows(_, _)
recordsOfRows(rows, i) ==
  IF i > Len(rows) THEN << >>
  ELSE (IF cleanValue(rows[i]) = << >> THEN << >>
        ELSE << [c \in {columnName} |-> typedText(cleanValue(rows[i]))] >>)
       \o recordsOfRows(rows, i + 1)

\* C30: parseCSV returns one record per row of the table the file was
\* written from, whatever the field holds (the separator, a quote, a line
\* feed) and whichever line ending the file uses.
C30_OneRecordPerLogicalRow ==
  parsed.done => parsed.records = recordsOfRows(logical.rows, 1)

\* this.inventoryPartsCache.get(inventoryId) || [] on the map m.
cacheGet(m, inventoryId) ==
  IF inventoryId \in DOMAIN m THEN m[inventoryId] ELSE << >>

\* What getInventoryPartsFromCache(inventoryId) emits in the current state:
\* the list of the map, built first when the indices are not initialized.
partsFromCache(inventoryId) ==
  IF cacheInitialized
  THEN cacheGet(inventoryPartsCache, inventoryId)
  ELSE cacheGet(indexedInventoryParts(inventoryPartsCache,
                                      inventoryPartsTable(memory), 1),
                inventoryId)

\* The inventory ids asked for: one that has parts, one that has none.
inventoryIds == {1, 2}

\* C31: whenever the ready signal is true, getInventoryPartsFromCache(id)
\* gives exactly the records of the in-memory inventoryParts table with that
\* inventory_id, whatever queries, loads and refreshes came before.
C31_IndicesMatchTables ==
  dataLoaded =>
    \A id \in inventoryIds :
      partsFromCache(id) =
        SelectSeq(inventoryPartsTable(memory),
                  LAMBDA part : part.inventory_id = id)


\* C32: at most one loadData run is in progress at a time; a further trigger
\* while a run is in progress (a refreshCSVData call before the initial load
\* has finished included) starts no second run of fetch, store write and
\* in-memory population.
C32_OneLoadPipeline ==
  Cardinality(ActiveRuns) <= 1


----------------------------------------------------------------------------
(***************************************************************************)
(* StorageService.clearAllData and the page load that follows it.          *)
(***************************************************************************)
\* StorageService.clearAllData. With IndexedDB supported and enabled it
\* awaits IndexedDBService.clearUserData, which clears the appState store
\* (cleared) or rejects; only when it rejects is the localStorage record
\* removed. Without IndexedDB the localStorage record is removed. Then the
\* default state is published; saveState is not called.
clearAllData ==
  /\ IF checkIndexedDBSupport
     THEN \E cleared \in BOOLEAN :
            /\ userStore' = IF cleared THEN None ELSE userStore
            /\ localRecord' = IF cleared THEN localRecord ELSE None
     ELSE /\ localRecord' = None
          /\ UNCHANGED userStore
  /\ appState' = DefaultState
  /\ UNCHANGED <<cacheVars, breakerVars, loadVars, fileVars, objVars,
                 indexVars, outcomes, raceVars, textVars, saveVars, undoVars>>

\* The user's session: page loads, changes of the active inventory (saved to
\* IndexedDB, or to localStorage when that save fails) and wipes of the
\* user's data.
NextWipe ==
  \/ loadState
  \/ \E id \in {"null", "inv1"} : setActiveInventory(id)
  \/ clearAllData

SpecWipe == InitUser /\ [][NextWipe]_vars

\* C33: after clearAllData has completed, a loadState (the next page load)
\* publishes a state without user inventories, whatever IndexedDB failures
\* and fallback saves came before the clear.
C33_ClearedStaysCleared ==
  [][clearAllData =>
       \A readable \in BOOLEAN :
         adoptedState(readable)'.userInventories = << >>]_vars


----------------------------------------------------------------------------
(***************************************************************************)
(* StorageService at startup: the constructor calls loadState, which       *)
(* awaits loadAppStateWithTimestamp; the mutators publish a state and call *)
(* saveState without awaiting it; saveAppState settles later.              *)
(***************************************************************************)
Inventories == {"inv1"}

\* The instants of the startup, one millisecond apart.
StartupInstants == {T0 + k : k \in 0..MaxSaves}

\* saveState up to its await. const timestamp = Date.now() is taken at the
\* call; with IndexedDB supported and enabled the call awaits
\* saveAppState(currentState), otherwise it writes the localStorage record
\* with that timestamp at once.
saveStateCalled(currentState) ==
  IF checkIndexedDBSupport
  THEN /\ Len(saves) < MaxSaves
       /\ saves' = Append(saves, [state |-> currentState, timestamp |-> now])
       /\ UNCHANGED localRecord
  ELSE /\ localRecord' = [data |-> currentState, timestamp |-> now]
       /\ UNCHANGED saves

\* The record saveAppState puts: timestamp Date.now() when the put is made.
stateData(state) == [data |-> state, timestamp |-> now]

\* The oldest saveAppState settles. It resolves once its put is done; the
\* transactions on the appState store run in the order they were created, so
\* the put comes after the read loadState asked for. Or it rejects, and
\* saveState writes the localStorage record with the timestamp of the call.
saveAppStateSettled ==
  /\ saves # << >>
  /\ \/ /\ spc = "done"
        /\ userStore' = stateData(Head(saves).state)
        /\ UNCHANGED localRecord
     \/ /\ localRecord' = [data |-> Head(saves).state,
                          timestamp |-> Head(saves).timestamp]
        /\ UNCHANGED userStore
  /\ saves' = Tail(saves)
  /\ UNCHANGED <<appState, spc>>
  /\ UNCHANGED <<cacheVars, breakerVars, loadVars, fileVars, objVars,
                 indexVars, outcomes, raceVars, textVars, undoVars>>

\* loadState resumes after loadAppStateWithTimestamp (which resolved, or
\* rejected), publishes the state it adopts and calls saveState.
loadStateResumed(readable) ==
  /\ spc = "reading"
  /\ appState' = adoptedState(readable)
  /\ saveStateCalled(appState')
  /\ spc' = "done"
  /\ UNCHANGED userStore
  /\ UNCHANGED <<cacheVars, breakerVars, loadVars, fileVars, objVars,
                 indexVars, outcomes, raceVars, textVars, undoVars>>

\* addUserInventory(inventory), for an inventory with a new id.
addUserInventory(inventory) ==
  /\ spc # "idle"
  /\ \A i \in 1..Len(appState.userInventories) :
       appState.userInventories[i] # inventory
  /\ appState' =
       [userInventories |-> Append(appState.userInventories, inventory),
        activeInventoryId |->
          IF appState.activeInventoryId # "null"
          THEN appState.activeInventoryId
          ELSE inventory]
  /\ saveStateCalled(appState')
  /\ UNCHANGED <<userStore, spc>>
  /\ UNCHANGED <<cacheVars, breakerVars, loadVars, fileVars, objVars,
                 indexVars, outcomes, raceVars, textVars, undoVars>>

\* deleteUserInventory(inventoryId).
deleteUserInventory(inventoryId) ==
  /\ spc # "idle"
  /\ LET updatedInventories ==
           SelectSeq(appState.userInventories,
                     LAMBDA inv : inv # inventoryId)
         activeId ==
           IF appState.activeInventoryId = inventoryId
           THEN IF Len(updatedInventories) > 0
                THEN updatedInventories[1]
                ELSE "null"
           ELSE appState.activeInventoryId
     IN appState' = [userInventories |-> updatedInventories,
                     activeInventoryId |-> activeId]
  /\ saveStateCalled(appState')
  /\ UNCHANGED <<userStore, spc>>
  /\ UNCHANGED <<cacheVars, breakerVars, loadVars, fileVars, objVars,
                 indexVars, outcomes, raceVars, textVars, undoVars>>

\* StorageService as constructed in a browser with IndexedDB: loadState has
\* run up to its await; the two stores hold what an earlier session left.
InitStartup ==
  /\ InitStore
  /\ LoaderIdle
  /\ userStore \in {None} \cup [data : AppStates, timestamp : 1..MaxStamp]
  /\ localRecord \in {None} \cup [data : AppStates, timestamp : 0..MaxStamp]
  /\ appState = DefaultState
  /\ spc = "reading"
  /\ saves = << >>
  /\ NoFiles
  /\ MapsEmpty
  /\ NoUndo
  /\ NoText

NextStartup ==
  \/ \E readable \in BOOLEAN : loadStateResumed(readable)
  \/ \E inventory \in Inventories : addUserInventory(inventory)
  \/ \E inventoryId \in Inventories : deleteUserInventory(inventoryId)
  \/ saveAppStateSettled
  \/ Tick(StartupInstants)

SpecStartup == InitStartup /\ [][NextStartup]_vars

\* C34: a mutation applied before the loadState of the constructor has
\* finished is still in the state after loadState finishes: an inventory
\* added meanwhile is among the inventories loadState publishes.
C34_NoUpdateLostAtStartup ==
  [][(\E readable \in BOOLEAN : loadStateResumed(readable)) =>
       \A i \in 1..Len(appState.userInventories) :
         \E j \in 1..Len(appState'.userInventories) :
           appState'.userInventories[j] = appState.userInventories[i]]_vars

\* C35: once every saveState call has settled (each saveAppState resolved,
\* or rejected with the state written to localStorage instead), the copy a
\* fresh loadState adopts is the last state published.
C35_SaveThenLoad ==
  (spc = "done" /\ saves = << >>) => adoptedState(TRUE) = appState


----------------------------------------------------------------------------
(***************************************************************************)
(* IndexedDBService.getCSVCacheInfo beside the validator.                  *)
(***************************************************************************)
\* getCSVCacheInfo, "const isValid = ageInHours < this.CSV_CACHE_EXPIRY_HOURS".
infoIsValid(m, t) ==
  t - m.timestamp < CSV_CACHE_EXPIRY_HOURS * MS_PER_HOUR

\* What getCSVCacheInfo resolves with in the current state when its
\* loadCSVMetadata reads the record: { exists: false } without a record,
\* else exists with the age test.
getCSVCacheInfo ==
  IF meta = None
  THEN [exists |-> FALSE, isValid |-> FALSE]
  ELSE [exists |-> TRUE, isValid |-> infoIsValid(meta, now)]

\* C36: whenever isCSVCacheValid has returned true, getCSVCacheInfo on the
\* same store state reports exists = true and isValid = true, for every age
\* of the metadata record.
C36_ValidatorAndInfoAgree ==
  (rpc = "done" /\ rresult) =>
    (getCSVCacheInfo.exists /\ getCSVCacheInfo.isValid)


----------------------------------------------------------------------------
(***************************************************************************)
(* A table write beside the circuit breaker.                               *)
(***************************************************************************)
\* The tables handed to saveToObjectStore here: one record of the
\* inventory_minifigs store.
GuardTables == {t \in TablesOf("inventoryMinifigs") : Len(t) = 1}

\* saveToObjectStore(storeName, data), its first statement: const db = await
\* this.ensureDB(), here returning the open connection (this.db); the
\* transactions that follow are made on that db.
saveToObjectStore(storeName, data) ==
  /\ opc = "idle"
  /\ ~checkSessionDisableStatus.disabled
  /\ db # 0
  /\ tableKind' = storeName
  /\ tableData' = data
  /\ opc' = "clear"
  /\ UNCHANGED <<objectStore, loaded>>
  /\ UNCHANGED <<cacheVars, breakerVars, loadVars, userVars, fileVars,
                 indexVars, outcomes, raceVars, textVars, saveVars, undoVars>>

\* ensureDB calls and open attempts that settle in any order beside one
\* table write. forceCleanup (IndexedDBService.clearAllData) closes the
\* connection a running write holds, whose next transaction then throws; it
\* is taken here before the write only.
NextGuard ==
  \/ ensureDB
  \/ \E a \in 1..MaxAttempts :
       openSucceeded(a) /\ UNCHANGED <<outcomes, raceVars, textVars, saveVars, undoVars>>
  \/ \E a \in 1..MaxAttempts :
       openFailed(a) /\ UNCHANGED <<outcomes, raceVars, textVars, saveVars, undoVars>>
  \/ opc = "idle" /\ forceCleanup
  \/ \E data \in GuardTables : saveToObjectStore("inventoryMinifigs", data)
  \/ clearObjectStore
  \/ putBatch

SpecGuard == InitBreaker /\ [][NextGuard]_vars

\* C37: while the store is disabled for the session no transaction is
\* started, the clear and the batches of a table write that was already
\* running when the store was disabled included.
C37_NoTransactionWhileDisabled ==
  [][(clearObjectStore \/ putBatch) => ~indexedDBDisabled]_vars


----------------------------------------------------------------------------
(***************************************************************************)
(* saveCSVDataCache: the marker at its return.                             *)
(***************************************************************************)
\* saveCSVDataCache of cycle w returns or throws in this step.
returns(w) ==
  wpc[w] \notin {"saved", "failed"} /\ wpc'[w] \in {"saved", "failed"}

----------------------------------------------------------------------------
(***************************************************************************)
(* The inventory detail page: updatePartQuantity, the undo history and     *)
(* performUndo. Each handler ends with StorageService.updateUserInventory, *)
(* whose emission makes the page rebuild its part lists from partsOwned    *)
(* (loadInventoryData, with migrateSparePartsData). An UndoAction is       *)
(* carried without its timestamp and description.                          *)
(***************************************************************************)
maxUndoHistory == 100

\* getPartStorageKey(partNum, colorId, isSpare).
getPartStorageKey(partNum, colorId, isSpare) ==
  LET baseKey == partNum \o "_" \o ToString(colorId)
  IN IF isSpare THEN "spare_" \o baseKey ELSE baseKey

\* The inventory_parts rows of the set on the page: a brick needed twice, and
\* the same brick once more as a spare part.
inventoryPartsOfSet ==
  << [part_num |-> "3001", color_id |-> 4, quantity |-> 2, is_spare |-> FALSE],
     [part_num |-> "3001", color_id |-> 4, quantity |-> 1, is_spare |-> TRUE] >>

storageKey(invPart) ==
  getPartStorageKey(invPart.part_num, invPart.color_id, invPart.is_spare)

\* userInventory.partsOwned[key] || 0.
ownedOrZero(partsOwned, key) ==
  IF key \in DOMAIN partsOwned THEN partsOwned[key] ELSE 0

\* partsOwned[key] = quantity.
withQuantity(partsOwned, key, quantity) ==
  [k \in DOMAIN partsOwned \cup {key} |->
     IF k = key THEN quantity ELSE partsOwned[k]]

\* migrateSparePartsData: a spare part without an entry under its own key
\* takes over the entry under the key of the regular part.
migrateSparePartsData(partsOwned) ==
  LET oldKey(invPart) ==
        invPart.part_num \o "_" \o ToString(invPart.color_id)
      moved ==
        {i \in 1..Len(inventoryPartsOfSet) :
           /\ inventoryPartsOfSet[i].is_spare
           /\ oldKey(inventoryPartsOfSet[i]) \in DOMAIN partsOwned
           /\ storageKey(inventoryPartsOfSet[i]) \notin DOMAIN partsOwned}
  IN [k \in DOMAIN partsOwned
             \cup {storageKey(inventoryPartsOfSet[i]) : i \in moved} |->
        IF k \in DOMAIN partsOwned THEN partsOwned[k]
        ELSE partsOwned[oldKey(inventoryPartsOfSet[
               CHOOSE i \in moved : storageKey(inventoryPartsOfSet[i]) = k])]]

\* The part details loadInventoryData builds from the rows and partsOwned.
partDetails(partsOwned) ==
  [i \in 1..Len(inventoryPartsOfSet) |->
     [inventoryPart |-> inventoryPartsOfSet[i],
      quantityNeeded |-> inventoryPartsOfSet[i].quantity,
      quantityOwned |->
        ownedOrZero(partsOwned, storageKey(inventoryPartsOfSet[i]))]]

\* Math.max(0, Math.min(quantity, part.quantityNeeded)).
clampedQuantity(quantity, quantityNeeded) ==
  LET least == IF quantity < quantityNeeded THEN quantity ELSE quantityNeeded
  IN IF least < 0 THEN 0 ELSE least

\* addUndoAction: unshift(action), then slice(0, maxUndoHistory).
addUndoAction(undoHistory, action) ==
  LET added == <<action>> \o undoHistory
  IN IF Len(added) > maxUndoHistory
     THEN SubSeq(added, 1, maxUndoHistory)
     ELSE added

\* The page after the emission of updateUserInventory: userInventory with
\* the migrated partsOwned, the part lists rebuilt from it.
rebuilt(partsOwned, undoHistory) ==
  /\ userInventory' = [partsOwned |-> migrateSparePartsData(partsOwned),
                       undoHistory |-> undoHistory]
  /\ displayedParts' = partDetails(migrateSparePartsData(partsOwned))

\* updatePartQuantity(part, quantity) for the i-th displayed part; it returns
\* without a change when the clamped quantity is the one displayed.
updatePartQuantity(i, quantity) ==
  LET part == displayedParts[i]
      key == storageKey(part.inventoryPart)
      previousQuantity == part.quantityOwned
      clamped == clampedQuantity(quantity, part.quantityNeeded)
      undoAction == [type |-> "part", key |-> key,
                     previousQuantity |-> previousQuantity,
                     newQuantity |-> clamped]
  IN /\ Len(handled) < MaxOps
     /\ clamped # previousQuantity
     /\ rebuilt(withQuantity(userInventory.partsOwned, key, clamped),
                addUndoAction(userInventory.undoHistory, undoAction))
     /\ handled' = Append(handled, "updatePartQuantity")
     /\ UNCHANGED <<cacheVars, breakerVars, loadVars, dataVars, outcomes,
                    raceVars, textVars, saveVars>>

\* Variant of the quantity performUndo restores: the one of after the change.
redoneQuantity(lastAction) == lastAction.newQuantity

\* The quantity performUndo hands to updatePartQuantityInternal.
restoredQuantity(lastAction) == lastAction.previousQuantity

\* performUndo: undoHistory.shift(), updatePartQuantityInternal(key,
\* previousQuantity), saveUserInventory.
performUndo ==
  /\ Len(handled) < MaxOps
  /\ userInventory.undoHistory # << >>
  /\ LET lastAction == Head(userInventory.undoHistory)
     IN rebuilt(withQuantity(userInventory.partsOwned, lastAction.key,
                             restoredQuantity(lastAction)),
                Tail(userInventory.undoHistory))
  /\ handled' = Append(handled, "performUndo")
  /\ UNCHANGED <<cacheVars, breakerVars, loadVars, dataVars, outcomes,
                 raceVars, textVars, saveVars>>

\* The undo history after n changes of the first part between 0 and 1, the
\* newest first.
toggles(n) ==
  [k \in 1..n |->
     [type |-> "part", key |-> storageKey(inventoryPartsOfSet[1]),
      previousQuantity |-> (n - k) % 2, newQuantity |-> (n - k + 1) % 2]]

\* The page as opened on an inventory: a new one, or one whose history holds
\* maxUndoHistory entries, or one less, after as many changes of the first
\* part.
InitUndo ==
  /\ InitStore
  /\ LoaderIdle
  /\ userStore = None
  /\ localRecord = None
  /\ appState = DefaultState
  /\ NoFiles
  /\ MapsEmpty
  /\ NoSaves
  /\ NoText
  /\ \E n \in {0, maxUndoHistory - 1, maxUndoHistory} :
       /\ userInventory =
            [partsOwned |->
               IF n = 0 THEN << >>
               ELSE migrateSparePartsData(
                      withQuantity(
                        withQuantity(<< >>, storageKey(inventoryPartsOfSet[2]),
                                     1),
                        storageKey(inventoryPartsOfSet[1]), n % 2)),
             undoHistory |-> toggles(n)]
       /\ displayedParts = partDetails(userInventory.partsOwned)
  /\ handled = << >>

NextUndo ==
  \/ \E i \in 1..Len(inventoryPartsOfSet), quantity \in (0 - 1)..3 :
       updatePartQuantity(i, quantity)
  \/ performUndo

SpecUndo == InitUndo /\ [][NextUndo]_vars

\* The state performUndo leaves when it runs next.
undone ==
  LET lastAction == Head(userInventory.undoHistory)
      partsOwned ==
        migrateSparePartsData(
          withQuantity(userInventory.partsOwned, lastAction.key,
                       restoredQuantity(lastAction)))
  IN [partsOwned |-> partsOwned,
      displayedParts |-> partDetails(partsOwned),
      undoHistory |-> Tail(userInventory.undoHistory)]

\* C39: after updatePartQuantity has changed the owned quantity of a part
\* from p to q, performUndo restores p in the displayed part and in
\* partsOwned and removes exactly the entry of that change from the undo
\* history; the history never holds more than maxUndoHistory entries.
C39_UndoIsRoundTrip ==
  /\ [][\A i \in 1..Len(inventoryPartsOfSet), quantity \in (0 - 1)..3 :
          updatePartQuantity(i, quantity) =>
            LET key == storageKey(displayedParts[i].inventoryPart)
                p == displayedParts[i].quantityOwned
            IN /\ p = ownedOrZero(userInventory.partsOwned, key)
               /\ displayedParts'[i].quantityOwned # p
               /\ Head(userInventory.undoHistory').key = key
               /\ undone'.displayedParts[i].quantityOwned = p
               /\ ownedOrZero(undone'.partsOwned, key) = p
               /\ undone'.undoHistory = Tail(userInventory.undoHistory')
               /\ \A k \in 1..Len(undone'.undoHistory) :
                    undone'.undoHistory[k] = userInventory.undoHistory[k]]_vars
  /\ [][performUndo =>
          /\ userInventory'.partsOwned = undone.partsOwned
          /\ displayedParts' = undone.displayedParts
          /\ userInventory'.undoHistory = undone.undoHistory]_vars
  /\ [](Len(userInventory.undoHistory) <= maxUndoHistory)

\* A change made with the history at its limit, or one entry below, has
\* been undone: the history holds one entry less than the limit, the
\* entries of the earlier changes of the first part.
C39_Witness ==
  /\ handled = <<"updatePartQuantity", "performUndo">>
  /\ Len(userInventory.undoHistory) = maxUndoHistory - 1
  /\ \A k \in 1..(maxUndoHistory - 1) :
       userInventory.undoHistory[k].key = storageKey(inventoryPartsOfSet[1])
  /\ displayedParts[2].quantityOwned = 1


\* C40: concurrent ensureDB callers share one initialization: at any time at
\* most one open attempt is outstanding, and a failed attempt increments
\* failureCount exactly once however many callers were waiting for it.
C40_OneInitializationShared ==
  /\ [](Cardinality(attempts) <= 1)
  /\ [][\A a \in 1..MaxRetries :
          (openFailed(a) \/ openTimedOut(a)) =>
            failureCount' = failureCount + 1]_vars

====
